---------------------------- MODULE Spec2Model ----------------------------
(***************************************************************************)
(* A model of custom_components/turkov/api.py: the account session         *)
(* (TurkovAPI: tokens, authenticate(), the _handle_preliminary_auth        *)
(* wrapper, the conditional-cache request layer) and the device registry   *)
(* that update_user_data keeps.                                            *)
(*                                                                         *)
(* A step of the model is one synchronous stretch of a coroutine: from     *)
(* the place where it resumes (a call, a response arriving, a              *)
(* cancellation) to the next await that waits for the network.             *)
(***************************************************************************)
EXTENDS Integers, Sequences, FiniteSets, TLC

(***************************************************************************)
(* Bounds of the model and constants of the program.                       *)
(***************************************************************************)
\* utcnow().timestamp() ranges over 0..MaxNow
MaxNow == 2
\* number of coroutines sharing the session in SpecConc
NumCo == 2
\* longest "devices" list of a user-data payload
MaxDevs == 2
\* the 60 seconds of access_token_needs_update / refresh_token_needs_update
Margin == 60
\* response.status == 304
NotModified == 304
\* any other status: update_user_data compares the status with 304 only
StatusOK == 200

\* Python's None for an expiry (Optional[int]); expiries are >= 0
NoneExp == -1
\* a key absent from the sign-in response (data[...] raises KeyError)
MissingExp == -2
\* a value int() rejects (ValueError / TypeError)
NonIntExp == -3

\* Python's None for a token (Optional[str])
NoneTok == "<None>"
\* the empty string, falsy like None
EmptyTok == ""
\* a key absent from a response
Missing == "<missing>"

AccessTokens == {"a1", "a2"}
RefreshTokens == {"r1", "r2"}

\* expiry instants around the two boundaries the code compares against:
\* expiry = now (validation) and expiry - Margin = now (needs_update)
ExpiryVals == {1, Margin + 1, 2 * Margin}

Falsy(t) == t \in {NoneTok, EmptyTok}

\* access_token_needs_update without the margin
access_token_needs_update_no_margin(tk, t) ==
    IF Falsy(tk.access_token) THEN TRUE
    ELSE IF tk.access_token_expires_at = NoneExp THEN TRUE
    ELSE tk.access_token_expires_at < t

(***************************************************************************)
(* Token freshness.                                                        *)
(***************************************************************************)
\* the two properties, on the stored token record tk at time t
access_token_needs_update(tk, t) ==
    IF Falsy(tk.access_token) THEN TRUE
    ELSE IF tk.access_token_expires_at = NoneExp THEN TRUE
    ELSE (tk.access_token_expires_at - Margin) < t

refresh_token_needs_update(tk, t) ==
    IF Falsy(tk.refresh_token) THEN TRUE
    ELSE IF tk.refresh_token_expires_at = NoneExp THEN TRUE
    ELSE (tk.refresh_token_expires_at - Margin) < t


(***************************************************************************)
(* Python values of the device payloads and attributes.                    *)
(*   t "None", "bool", "int", "float" or "str"; n the number (a float in   *)
(*   hundredths, a bool as 0 / 1); s the text                              *)
(***************************************************************************)
\* floats are kept in hundredths: _float_less divides by ten
Scale == 100

PyNone == [t |-> "None", n |-> 0, s |-> ""]
PyBool(b) == [t |-> "bool", n |-> IF b THEN 1 ELSE 0, s |-> ""]
PyInt(i) == [t |-> "int", n |-> i, s |-> ""]
PyFloat(h) == [t |-> "float", n |-> h, s |-> ""]
PyStr(x) == [t |-> "str", n |-> 0, s |-> x]

\* the number of a bool, int or float, in hundredths
Hundredths(v) == IF v.t = "float" THEN v.n ELSE Scale * v.n

\* a == b in Python: numbers compare by value whatever their type
\* (True == 1 == 1.0), text with text, None with None only
PyEq(a, b) ==
    IF a.t \in {"bool", "int", "float"} /\ b.t \in {"bool", "int", "float"}
        THEN Hundredths(a) = Hundredths(b)
    ELSE a.t = b.t /\ a.s = b.s

\* the texts of the model that float() reads, with their value in hundredths
FloatTexts == [x \in {"21.5", "45"} |-> IF x = "45" THEN 4500 ELSE 2150]
\* the texts of the model that int() reads
IntTexts == [x \in {"45"} |-> 45]
\* str() of the integers of the model
TextOfInt(i) ==
    CASE i = 0 -> "0" [] i = 1 -> "1" [] i = 21 -> "21" [] i = 40 -> "40"
      [] i = 45 -> "45" [] i = 50 -> "50" [] i = 215 -> "215"
      [] OTHER -> "<int>"

\* a conversion: the exception it raises ("none": it returns) and the value
Converted(v) == [exc |-> "none", v |-> v]
ConvRaises(e) == [exc |-> e, v |-> PyNone]

\* float(x)
ToFloat(v) ==
    CASE v.t = "None" -> ConvRaises("TypeError")
      [] v.t = "str" ->
            IF v.s \in DOMAIN FloatTexts
            THEN Converted(PyFloat(FloatTexts[v.s]))
            ELSE ConvRaises("ValueError")
      [] OTHER -> Converted(PyFloat(Hundredths(v)))

\* TurkovDevice._float_less: float(x) / 10
_float_less(v) ==
    LET f == ToFloat(v)
    IN IF f.exc # "none" THEN f ELSE Converted(PyFloat(f.v.n \div 10))

\* int(x)
ToInt(v) ==
    CASE v.t = "None" -> ConvRaises("TypeError")
      [] v.t = "str" ->
            IF v.s \in DOMAIN IntTexts THEN Converted(PyInt(IntTexts[v.s]))
            ELSE ConvRaises("ValueError")
      [] v.t = "float" -> Converted(PyInt(v.n \div Scale))
      [] OTHER -> Converted(PyInt(v.n))

\* bool(x)
ToBool(v) ==
    CASE v.t = "None" -> Converted(PyBool(FALSE))
      [] v.t = "str" -> Converted(PyBool(v.s # ""))
      [] OTHER -> Converted(PyBool(v.n # 0))

\* str(x), for the values of the model's payloads
ToStr(v) ==
    CASE v.t = "None" -> Converted(PyStr("None"))
      [] v.t = "str" -> Converted(v)
      [] v.t = "bool" ->
            Converted(PyStr(IF v.n = 1 THEN "True" ELSE "False"))
      [] v.t = "int" -> Converted(PyStr(TextOfInt(v.n)))
      [] OTHER -> Converted(PyStr("<float>"))

\* the converter of a mapping entry applied to a wire value; "None": the
\* value is taken as it is
Convert(conv, v) ==
    CASE conv = "float" -> ToFloat(v)
      [] conv = "_float_less" -> _float_less(v)
      [] conv = "int" -> ToInt(v)
      [] conv = "bool" -> ToBool(v)
      [] conv = "str" -> ToStr(v)
      [] OTHER -> Converted(v)

(***************************************************************************)
(* The state.                                                              *)
(***************************************************************************)
VARIABLES
    now,                    \* utcnow().timestamp()
    handle_authentication,  \* TurkovAPI.handle_authentication
    user_email,             \* TurkovAPI._user_email: "u" stands for a
                            \* well-formed address, local@domain
    password,               \* TurkovAPI._password
    tok,                    \* the four token fields of the session
    profile,                \* first_name, last_name, middle_name
    devices,                \* TurkovAPI._devices: id -> device
    request_history,        \* TurkovAPI._request_history: tag -> validator
    co,                     \* the coroutines using the session
    accepted,               \* history: the last response that was stored,
                            \* NoResponse while the constructor's are
    last,                   \* history: the last response a request body read
    standalone              \* a TurkovDevice made with a session and no api

vars == << now, handle_authentication, user_email, password, tok, profile,
           devices, request_history, co, accepted, last, standalone >>

sessionVars == << handle_authentication, user_email, password, profile,
                  devices, request_history >>

(***************************************************************************)
(* _process_auth_request: what one sign-in or refresh response does.       *)
(***************************************************************************)
\* Responses to POST /user/signin and GET /user/token.
\*   kind "transport": the request itself raises aiohttp.ClientError
\*   kind "badjson":   response.json() raises (ContentTypeError,
\*                     JSONDecodeError, ClientError, TimeoutError)
\*   kind "data":      a decoded JSON object with these four values
AuthData(A, AE, R, RE) ==
    [kind : {"data"}, accessToken : A, accessTokenExpiresAt : AE,
     refreshToken : R, refreshTokenExpiresAt : RE]

AuthFailure(k) ==
    [kind |-> k, accessToken |-> Missing, accessTokenExpiresAt |-> MissingExp,
     refreshToken |-> Missing, refreshTokenExpiresAt |-> MissingExp]

NoResponse == AuthFailure("none")

\* lines 276-289: the four values are extracted, the expiries through int()
Extracts(r) ==
    /\ r.accessToken # Missing
    /\ r.accessTokenExpiresAt \notin {MissingExp, NonIntExp}
    /\ r.refreshToken # Missing
    /\ r.refreshTokenExpiresAt \notin {MissingExp, NonIntExp}

\* lines 291-303: "Some data validation", at the pinned timestamp t
Validates(r, t) ==
    /\ ~ (~ (~Falsy(r.accessToken) \/ ~Falsy(r.refreshToken)))
    /\ ~ (r.accessTokenExpiresAt < t)
    /\ ~ (r.refreshTokenExpiresAt < t)

\* AssignTokens interrupted before its last assignment (line 315)
AssignTokensTorn(tk, r) ==
    [tk EXCEPT !.access_token = r.accessToken,
               !.refresh_token = r.refreshToken,
               !.access_token_expires_at = r.accessTokenExpiresAt]

\* lines 307-315: "Update auth data"
AssignTokens(tk, r) ==
    [access_token |-> r.accessToken,
     refresh_token |-> r.refreshToken,
     access_token_expires_at |-> r.accessTokenExpiresAt,
     refresh_token_expires_at |-> r.refreshTokenExpiresAt]

Accepts(r, t) == r.kind = "data" /\ Extracts(r) /\ Validates(r, t)

\* ProcessAuth storing each value as soon as it has extracted it
ProcessAuthEager(r, tk, t) ==
    IF r.kind = "transport" THEN [exc |-> "ClientError", tok |-> tk]
    ELSE IF r.kind = "badjson"
        THEN [exc |-> "TurkovAPIAuthenticationError", tok |-> tk]
    ELSE IF r.accessToken = Missing
        THEN [exc |-> "TurkovAPIAuthenticationError", tok |-> tk]
    ELSE IF ~Extracts(r) \/ ~Validates(r, t)
        THEN [exc |-> "TurkovAPIAuthenticationError",
              tok |-> [tk EXCEPT !.access_token = r.accessToken]]
    ELSE [exc |-> "none", tok |-> AssignTokens(tk, r)]

\* the exception _process_auth_request (or the request before it) ends with
\* and the token fields it leaves
ProcessAuth(r, tk, t) ==
    IF r.kind = "transport" THEN [exc |-> "ClientError", tok |-> tk]
    ELSE IF r.kind = "badjson"
        THEN [exc |-> "TurkovAPIAuthenticationError", tok |-> tk]
    ELSE IF ~Extracts(r)
        THEN [exc |-> "TurkovAPIAuthenticationError", tok |-> tk]
    ELSE IF ~Validates(r, t)
        THEN [exc |-> "TurkovAPIAuthenticationError", tok |-> tk]
    ELSE [exc |-> "none", tok |-> AssignTokens(tk, r)]

(***************************************************************************)
(* The registry and update_user_data.                                      *)
(***************************************************************************)
DeviceIds == {"d1", "d2"}
MetaKeys == {"deviceType", "deviceName", "serialNumber", "pin", "firmVer"}
RequiredKeys == {"devices", "userEmail", "firstName", "lastName", "fathersName"}
UserDataTag == "user_data"
DeviceTag(id) == IF id = "d1" THEN "device_state__d1" ELSE "device_state__d2"
Tags == {UserDataTag} \cup {DeviceTag(id) : id \in DeviceIds}
\* a tag that request_history has no entry for
NoTag == "<absent>"

\* TurkovDevice(id_, self): it refers to the session (api), has no local
\* address (host) and every optional attribute is None.  Of the 22 state
\* attributes the model keeps one for each converter of
\* ATTRIBUTE_KEY_MAPPING.
NewDevice ==
    [api |-> TRUE, host |-> NoneTok,
     type |-> NoneTok, name |-> NoneTok, serial_number |-> NoneTok,
     pin |-> NoneTok, firmware_version |-> NoneTok, image_url |-> NoneTok,
     is_on |-> PyNone, fan_speed |-> PyNone, target_temperature |-> PyNone,
     outdoor_temperature |-> PyNone, target_humidity |-> PyNone,
     fireplace |-> PyNone]

\* ApplyMeta on a new device object instead of the one given
ApplyMetaReplacing(d, e) ==
    [NewDevice EXCEPT
       !.type = IF "deviceType" \in DOMAIN e THEN e["deviceType"] ELSE @,
       !.name = IF "deviceName" \in DOMAIN e THEN e["deviceName"] ELSE @,
       !.serial_number =
            IF "serialNumber" \in DOMAIN e THEN e["serialNumber"] ELSE @,
       !.pin = IF "pin" \in DOMAIN e THEN e["pin"] ELSE @,
       !.firmware_version =
            IF "firmVer" \in DOMAIN e THEN e["firmVer"] ELSE @]

\* lines 437-446: the fields present in the entry are overwritten
ApplyMeta(d, e) ==
    [d EXCEPT
       !.type = IF "deviceType" \in DOMAIN e THEN e["deviceType"] ELSE @,
       !.name = IF "deviceName" \in DOMAIN e THEN e["deviceName"] ELSE @,
       !.serial_number =
            IF "serialNumber" \in DOMAIN e THEN e["serialNumber"] ELSE @,
       !.pin = IF "pin" \in DOMAIN e THEN e["pin"] ELSE @,
       !.firmware_version =
            IF "firmVer" \in DOMAIN e THEN e["firmVer"] ELSE @]

\* SyncEntries without lines 434-435, "else: leftover_devices.discard(id_)"
RECURSIVE SyncEntriesNoDiscard(_, _, _)
SyncEntriesNoDiscard(entries, devs, leftover) ==
    IF entries = << >> THEN [devices |-> devs, leftover |-> leftover]
    ELSE LET e == Head(entries) IN
         IF "_id" \notin DOMAIN e \/ Falsy(e["_id"])
            THEN SyncEntriesNoDiscard(Tail(entries), devs, leftover)
         ELSE LET id == e["_id"]
                  d == ApplyMeta(IF id \in DOMAIN devs THEN devs[id]
                                 ELSE NewDevice, e)
              IN SyncEntriesNoDiscard(
                    Tail(entries),
                    [k \in DOMAIN devs \cup {id} |->
                        IF k = id THEN d ELSE devs[k]],
                    leftover)

\* lines 411-446: the loop over device_datum, carrying the registry and the
\* set of leftover ids
RECURSIVE SyncEntries(_, _, _)
SyncEntries(entries, devs, leftover) ==
    IF entries = << >> THEN [devices |-> devs, leftover |-> leftover]
    ELSE LET e == Head(entries) IN
         IF "_id" \notin DOMAIN e
            THEN SyncEntries(Tail(entries), devs, leftover)
         ELSE IF Falsy(e["_id"])
            THEN SyncEntries(Tail(entries), devs, leftover)
         ELSE LET id == e["_id"]
                  known == id \in DOMAIN devs
                  d == ApplyMeta(IF known THEN devs[id] ELSE NewDevice, e)
              IN SyncEntries(
                    Tail(entries),
                    [k \in DOMAIN devs \cup {id} |->
                        IF k = id THEN d ELSE devs[k]],
                    IF known THEN leftover \ {id} ELSE leftover)

\* DiscardLeftover discarding nothing
KeepLeftover(devs, leftover) == devs

\* lines 451-456: "Discard leftover devices"
DiscardLeftover(devs, leftover) ==
    [k \in DOMAIN devs \ leftover |-> devs[k]]

\* StoreTag storing whatever the ETag header gave, None included
StoreTagAlways(hist, tag, etag) ==
    [hist EXCEPT ![tag] = IF Falsy(etag) THEN NoTag ELSE etag]

\* lines 448-449 / 512-513: the validator is stored only if one was returned
StoreTag(hist, tag, etag) ==
    IF Falsy(etag) THEN hist ELSE [hist EXCEPT ![tag] = etag]

\* What the session holds besides the tokens.
SessionState(email, prof, devs, hist) ==
    [user_email |-> email, profile |-> prof, devices |-> devs,
     request_history |-> hist]

\* UpdateUserData without the 304 short-circuit of lines 376-378
UpdateUserDataAlwaysParse(force, r, s) ==
    IF r.kind # "http" THEN [exc |-> r.kind, s |-> s]
    ELSE IF ~r.json THEN [exc |-> "TurkovAPIAuthenticationError", s |-> s]
    ELSE [exc |-> "none", s |-> s]

\* The body of update_user_data on response r: the exception it ends with
\* ("none": it returns) and the session state it leaves.
\*   r.kind "HTTPForbidden" / "HTTPUnauthorized" / "ClientError": the request
\*   raises; "http": a response with status, etag, json (whether
\*   response.json() decodes) and body (the decoded object).
UpdateUserData(force, r, s) ==
    IF r.kind # "http" THEN [exc |-> r.kind, s |-> s]
    ELSE IF ~force /\ r.status = NotModified THEN [exc |-> "none", s |-> s]
    ELSE IF ~r.json THEN [exc |-> "TurkovAPIAuthenticationError", s |-> s]
    \* line 399 formats {exp}, which is unbound there
    ELSE IF ~(RequiredKeys \subseteq r.body.keys)
        THEN [exc |-> "UnboundLocalError", s |-> s]
    ELSE LET synced == SyncEntries(r.body["devices"], s.devices,
                                   DOMAIN s.devices)
         IN [exc |-> "none",
             s |-> [user_email |-> r.body["userEmail"],
                    profile |-> [first_name |-> r.body["firstName"],
                                 last_name |-> r.body["lastName"],
                                 middle_name |-> r.body["fathersName"]],
                    devices |-> DiscardLeftover(synced.devices,
                                                synced.leftover),
                    request_history |->
                        StoreTag(s.request_history, UserDataTag, r.etag)]]

\* get_device_state storing the validator as soon as it has read the header
GetDeviceStateTagFirst(device_id, force, r, s) ==
    LET stored == [s EXCEPT !.request_history =
                        StoreTag(@, DeviceTag(device_id), r.etag)]
    IN IF r.kind # "http" THEN [exc |-> r.kind, s |-> s, ret |-> "None"]
       ELSE IF ~force /\ r.status = NotModified
           THEN [exc |-> "none", s |-> s, ret |-> "None"]
       ELSE IF ~r.json
           THEN [exc |-> "TurkovAPIError", s |-> stored, ret |-> "None"]
       ELSE IF r.shape \in {"notlist", "empty", "badtext", "notdict"}
           THEN [exc |-> "TurkovAPIError", s |-> stored, ret |-> "None"]
       ELSE IF r.shape = "nontext"
           THEN [exc |-> "TypeError", s |-> stored, ret |-> "None"]
       ELSE [exc |-> "none", s |-> stored, ret |-> "device_data"]

(***************************************************************************)
(* get_device_state and set_device_value.                                  *)
(***************************************************************************)
\* The body of get_device_state on response r.  r.shape is the shape of the
\* decoded JSON: "notlist", "empty" (an empty array), "badtext" (the last
\* element is text that is no JSON), "nontext" (the last element is no
\* text: loads raises TypeError), "notdict", or "ok".
GetDeviceState(device_id, force, r, s) ==
    IF r.kind # "http" THEN [exc |-> r.kind, s |-> s, ret |-> "None"]
    ELSE IF ~force /\ r.status = NotModified
        THEN [exc |-> "none", s |-> s, ret |-> "None"]
    ELSE IF ~r.json THEN [exc |-> "TurkovAPIError", s |-> s, ret |-> "None"]
    ELSE IF r.shape \in {"notlist", "empty", "badtext", "notdict"}
        THEN [exc |-> "TurkovAPIError", s |-> s, ret |-> "None"]
    ELSE IF r.shape = "nontext"
        THEN [exc |-> "TypeError", s |-> s, ret |-> "None"]
    ELSE [exc |-> "none",
          s |-> [s EXCEPT !.request_history =
                    StoreTag(@, DeviceTag(device_id), r.etag)],
          ret |-> "device_data"]

\* The body of set_device_value on response r.  r.message is the "message"
\* of the decoded object, Missing if it has none.
SetDeviceValue(r, s) ==
    IF r.kind # "http" THEN [exc |-> r.kind, s |-> s, ret |-> "None"]
    ELSE IF ~r.json THEN [exc |-> "TurkovAPIError", s |-> s, ret |-> "None"]
    ELSE IF r.message = Missing
        THEN [exc |-> "TurkovAPIError", s |-> s, ret |-> "None"]
    ELSE IF r.message # "success"
        THEN [exc |-> "TurkovAPIError", s |-> s, ret |-> "None"]
    ELSE [exc |-> "none", s |-> s, ret |-> "None"]

\* the wrapped function of operation o
RunFn(o, r, s) ==
    CASE o.name = "update_user_data" ->
            LET u == UpdateUserData(o.force, r, s)
            IN [exc |-> u.exc, s |-> u.s, ret |-> "None"]
      [] o.name = "get_device_state" -> GetDeviceState(o.dev, o.force, r, s)
      [] o.name = "set_device_value" -> SetDeviceValue(r, s)

\* the request tag the operation passes to prepare_authenticated_request
RequestTag(o) ==
    CASE o.name = "update_user_data" -> IF o.force THEN NoTag ELSE UserDataTag
      [] o.name = "get_device_state" ->
            IF o.force THEN NoTag ELSE DeviceTag(o.dev)
      [] OTHER -> NoTag

\* BuildRequest with the access token the session was constructed with
BuildRequestFirstToken(o, tk, hist) ==
    [token |-> "a0",
     inm |-> IF RequestTag(o) = NoTag THEN NoTag ELSE hist[RequestTag(o)]]

\* prepare_authenticated_request: the headers of the request
BuildRequest(o, tk, hist) ==
    [token |-> tk.access_token,
     inm |-> IF RequestTag(o) = NoTag THEN NoTag ELSE hist[RequestTag(o)]]

NoRequest == [token |-> Missing, inm |-> NoTag]

(***************************************************************************)
(* TurkovDevice.update_state: the payload applied to the attributes.       *)
(***************************************************************************)
BASE_URL == "https://turkovwifi.ru"

IMAGES_BY_DEVICE_TYPE ==
    [x \in {"Zenit", "Capsule", "i-Vent"} |->
        CASE x = "Zenit" -> "/images/zenit.jpg"
          [] x = "Capsule" -> "/images/capsule.jpg"
          [] OTHER -> "/images/ivent.jpg"]

\* attribute, wire key and converter, in the order of the class attribute;
\* one entry for each converter the mapping uses ("False": skipped by the
\* generic pass)
ATTRIBUTE_KEY_MAPPING ==
    << [attr |-> "is_on", key |-> "on", conv |-> "None"],
       [attr |-> "fan_speed", key |-> "fan_speed", conv |-> "str"],
       [attr |-> "target_temperature", key |-> "temp_sp", conv |-> "float"],
       [attr |-> "outdoor_temperature", key |-> "out_temp",
        conv |-> "_float_less"],
       [attr |-> "image_url", key |-> "image", conv |-> "False"],
       [attr |-> "target_humidity", key |-> "hum_sp", conv |-> "int"],
       [attr |-> "fireplace", key |-> "firep", conv |-> "bool"] >>

\* what update_state ends with: the exception ("none": it returns), the
\* device it leaves and the change set it returns
Updated(e, d, changed) == [exc |-> e, dev |-> d, changed |-> changed]

\* set_attribute not comparing with the stored value
SetIfDiffersAlways(d, changed, attr, v) ==
    [dev |-> [d EXCEPT ![attr] = v], changed |-> changed \cup {attr}]

\* lines 842-843: set_attribute if the value differs from the stored one
SetIfDiffers(d, changed, attr, v) ==
    IF ~PyEq(v, d[attr])
    THEN [dev |-> [d EXCEPT ![attr] = v], changed |-> changed \cup {attr}]
    ELSE [dev |-> d, changed |-> changed]

\* MissingValue marking a missing key as None whatever the flag
MissingValueAlwaysNone(d, attr, mark) == PyNone

\* lines 834-837: the value of an attribute whose key the payload lacks;
\* without the flag the loop continues, which leaves the stored value
MissingValue(d, attr, mark) == IF mark THEN PyNone ELSE d[attr]

\* lines 825-843: the generic pass from entry i of the mapping on
RECURSIVE GenericPass(_, _, _, _, _)
GenericPass(i, d, changed, data, mark) ==
    IF i > Len(ATTRIBUTE_KEY_MAPPING) THEN Updated("none", d, changed)
    ELSE LET m == ATTRIBUTE_KEY_MAPPING[i] IN
         IF m.conv = "False"
            THEN GenericPass(i + 1, d, changed, data, mark)
         ELSE IF m.key \notin DOMAIN data
            THEN LET set == SetIfDiffers(d, changed, m.attr,
                                         MissingValue(d, m.attr, mark))
                 IN GenericPass(i + 1, set.dev, set.changed, data, mark)
         ELSE LET cv == Convert(m.conv, data[m.key]) IN
              IF cv.exc # "none" THEN Updated(cv.exc, d, changed)
              ELSE LET set == SetIfDiffers(d, changed, m.attr, cv.v)
                   IN GenericPass(i + 1, set.dev, set.changed, data, mark)

\* lines 846-855: the image URL resolved from the payload and the type
ResolveImage(d, id, data) ==
    LET image == IF "image" \in DOMAIN data /\ data["image"].s # ""
                 THEN data["image"].s ELSE NoneTok
    IN IF image # NoneTok /\ ~Falsy(id)
          THEN BASE_URL \o "/upload/" \o id \o "_" \o image \o ".jpg"
       ELSE IF d.type \in DOMAIN IMAGES_BY_DEVICE_TYPE
          THEN BASE_URL \o IMAGES_BY_DEVICE_TYPE[d.type]
       ELSE image

\* lines 857-862: whether image_url is set to the resolved URL
ImageIsSet(stored, resolved, mark) ==
    IF mark THEN resolved = NoneTok /\ stored # NoneTok
    ELSE stored # resolved

\* lines 812-866, after get_state returned: device_data is None (no
\* payload) or the payload data
UpdateState(d, id, nodata, data, mark) ==
    IF nodata THEN Updated("none", d, {})
    ELSE LET g == GenericPass(1, d, {}, data, mark) IN
         IF g.exc # "none" THEN g
         ELSE LET url == ResolveImage(g.dev, id, data) IN
              IF ImageIsSet(g.dev.image_url, url, mark)
              THEN Updated("none", [g.dev EXCEPT !.image_url = url],
                           g.changed \cup {"image_url"})
              ELSE g

(***************************************************************************)
(* A coroutine: one call of authenticate() or of a wrapped operation.      *)
(*   pc    "idle", "auth" (authenticate() called directly), "preauth",     *)
(*         "fn1", "reauth", "fn2" (the places of _handle_preliminary_auth  *)
(*         where it awaits), "done"                                        *)
(*   exch  the exchange authenticate() awaits: "refresh", "cred", "none"   *)
(*   req   the headers of the request the wrapped function awaits          *)
(*   exc   the exception the call ended with, "none" if it returned        *)
(*   dop   the device method the call began with, if any: then pc is       *)
(*         "local" while it awaits the device's own endpoint, and op is    *)
(*         the session's operation it falls back to                        *)
(*   changed  the change set update_state returned                         *)
(*   cmd   the command the call began with, if any: then dop is the        *)
(*         set_value it calls                                              *)
(* and, as history of the call: whether the access token needed an update  *)
(* and which devices were known when it began, and what it did, in order.  *)
(***************************************************************************)
NoOp == [name |-> "none", force |-> FALSE, dev |-> "d1"]

\* a call of a device's method: get_state, set_value or update_state on
\* the device of the registry with the id target, or on the standalone one
DevOp(name, target, force, mark) ==
    [name |-> name, target |-> target, force |-> force, mark |-> mark]

NoDevOp == DevOp("none", "d1", FALSE, FALSE)

\* a command of a device: its name and argument, and the key and value it
\* calls set_value with ("": it has not called it)
NoCmd == [name |-> "none", arg |-> PyNone, key |-> "", value |-> PyNone]

Cmd(name, arg) == [NoCmd EXCEPT !.name = name, !.arg = arg]

IdleCo ==
    [pc |-> "idle", exch |-> "none", op |-> NoOp,
     authentication_attempted |-> FALSE, handle |-> FALSE,
     req |-> NoRequest, exc |-> "none", ret |-> "None",
     needed |-> FALSE, known |-> {}, log |-> << >>,
     dop |-> NoDevOp, changed |-> {}, cmd |-> NoCmd]

AuthClass == {"TurkovAPIAuthenticationError", "HTTPForbidden", "HTTPUnauthorized"}

\* an entry of the log: what happened, and the exception or circumstance
Ev(e, x) == [ev |-> e, info |-> x]

Logged(c, e, x) == [c EXCEPT !.log = Append(@, Ev(e, x))]

\* the call ends: it returns rv (e = "none") or raises e
Finish(c, e, rv) ==
    [c EXCEPT !.pc = "done", !.exch = "none", !.req = NoRequest,
              !.exc = e, !.ret = rv]

\* fn(self, *args, **kwargs) up to its request: lines 97 and 113
SendFn(c, where, tk, hist) ==
    [Logged(c, "request", "sent") EXCEPT
        !.pc = where, !.exch = "none", !.req = BuildRequest(c.op, tk, hist)]

\* authenticate() raises e: nothing around the call catches e
AuthRaised(c, e) == Finish(Logged(c, "auth_raised", e), e, "None")

\* authenticate_with_email up to its request: lines 220-231
CredEnter(c, where, email, pw) ==
    IF email # EmptyTok /\ pw # EmptyTok
    THEN [Logged(Logged(c, "cred", "called"), "signin", "sent") EXCEPT
            !.pc = where, !.exch = "cred"]
    ELSE AuthRaised(Logged(c, "cred", "called"), "ValueError")

\* authenticate() up to its first request: lines 322-325 and 336
AuthEnter(c, where, tk, t, email, pw) ==
    IF ~refresh_token_needs_update(tk, t)
    THEN [Logged(Logged(c, "authenticate", "usable"), "refresh", "sent")
            EXCEPT !.pc = where, !.exch = "refresh"]
    ELSE CredEnter(Logged(c, "authenticate", "unusable"), where, email, pw)

\* RefreshFailed without the "except asyncio.CancelledError: raise" clause
RefreshFailedAlsoOnCancel(c, e, email, pw) ==
    CredEnter(Logged(c, "refresh_failed", e), c.pc, email, pw)

\* lines 326-336: the refresh exchange raised e
RefreshFailed(c, e, email, pw) ==
    IF e = "CancelledError" THEN AuthRaised(c, e)
    ELSE CredEnter(Logged(c, "refresh_failed", e), c.pc, email, pw)

\* AuthReturned without line 93, "authentication_attempted = True"
AuthReturnedNoFlag(c, tk, hist) ==
    CASE c.pc = "auth" -> Finish(Logged(c, "auth_ok", "none"), "none", "None")
      [] c.pc = "preauth" ->
            SendFn(Logged(c, "auth_ok", "none"), "fn1", tk, hist)
      [] c.pc = "reauth" ->
            SendFn(Logged(c, "auth_ok", "none"), "fn2", tk, hist)

\* authenticate() returned to where it was called: lines 93, 97 and 113
AuthReturned(c, tk, hist) ==
    CASE c.pc = "auth" -> Finish(Logged(c, "auth_ok", "none"), "none", "None")
      [] c.pc = "preauth" ->
            SendFn([Logged(c, "auth_ok", "none") EXCEPT
                        !.authentication_attempted = TRUE],
                   "fn1", tk, hist)
      [] c.pc = "reauth" ->
            SendFn(Logged(c, "auth_ok", "none"), "fn2", tk, hist)

\* AfterFn with the retry handled like the first execution
AfterFnRetryAgain(c, e, rv, tk, t, email, pw) ==
    IF e \in AuthClass
        THEN IF c.authentication_attempted \/ ~c.handle
             THEN Finish(c, "TurkovAPIAuthenticationError", "None")
             ELSE AuthEnter(c, "reauth", tk, t, email, pw)
    ELSE Finish(c, e, rv)

\* lines 96-113: what the wrapper does when fn raised e or returned rv
\* (e = "none")
AfterFn(c, e, rv, tk, t, email, pw) ==
    IF c.pc = "fn2" THEN Finish(c, e, rv)
    ELSE IF e \in AuthClass
        THEN IF c.authentication_attempted \/ ~c.handle
             THEN Finish(c, "TurkovAPIAuthenticationError", "None")
             ELSE AuthEnter(c, "reauth", tk, t, email, pw)
    ELSE Finish(c, e, rv)

\* WrapperEnter not looking at handle_authentication
WrapperEnterAlways(c, handle, tk, t, email, pw, hist) ==
    IF access_token_needs_update(tk, t)
    THEN AuthEnter(c, "preauth", tk, t, email, pw)
    ELSE SendFn(c, "fn1", tk, hist)

\* lines 84-97: the wrapper up to its first await
WrapperEnter(c, handle, tk, t, email, pw, hist) ==
    IF handle /\ access_token_needs_update(tk, t)
    THEN AuthEnter(c, "preauth", tk, t, email, pw)
    ELSE SendFn(c, "fn1", tk, hist)

(***************************************************************************)
(* TurkovDevice.get_state, set_value and update_state: the local endpoint  *)
(* first, the session's cloud operation as the fallback.                   *)
(***************************************************************************)
\* the target of a call on the standalone device
Solo == "<standalone>"

\* TurkovDevice(session=..., host=h): no api, no id
StandaloneDevice(h) == [NewDevice EXCEPT !.api = FALSE, !.host = h]

TargetDevice(o, devs, solo) == IF o.target = Solo THEN solo ELSE devs[o.target]

\* self._id
TargetId(o) == IF o.target = Solo THEN NoneTok ELSE o.target

\* the exceptions of the local attempt that get_state and set_value catch
LocalCaught == {"ClientError", "TimeoutError", "JSONDecodeError"}

\* self._api.get_device_state(self._id, force=force) or
\* self._api.set_device_value(self._id, key, value), up to its first await
CloudEnter(c, handle, tk, t, email, pw, hist) ==
    WrapperEnter(
        [Logged(c, "cloud", "called") EXCEPT
            !.op = [name |-> IF c.dop.name = "set_value"
                             THEN "set_device_value" ELSE "get_device_state",
                    force |-> c.dop.force, dev |-> c.dop.target],
            !.handle = handle,
            !.needed = access_token_needs_update(tk, t)],
        handle, tk, t, email, pw, hist)

\* get_state lines 740-757 up to its first await (update_state line 812
\* calls it first)
GetStateEnter(c, d, handle, tk, t, email, pw, hist) ==
    IF ~Falsy(d.host) THEN [Logged(c, "local", "sent") EXCEPT !.pc = "local"]
    ELSE IF d.api THEN CloudEnter(c, handle, tk, t, email, pw, hist)
    ELSE Finish(c, "TurkovAPIError", "None")

\* GetStateLocalFailed never going to the cloud
GetStateLocalFailedNoCloud(c, e, d, handle, tk, t, email, pw, hist) ==
    Finish(Logged(c, "local_failed", e), e, "None")

\* get_state lines 743-755: get_state_local raised e
GetStateLocalFailed(c, e, d, handle, tk, t, email, pw, hist) ==
    IF e \in LocalCaught /\ d.api
    THEN CloudEnter(Logged(c, "local_failed", e), handle, tk, t, email, pw,
                    hist)
    ELSE Finish(Logged(c, "local_failed", e), e, "None")

\* set_value lines 780-799 up to its first await
SetValueEnter(c, d, handle, tk, t, email, pw, hist) ==
    IF ~Falsy(d.host) THEN [Logged(c, "local", "sent") EXCEPT !.pc = "local"]
    ELSE IF d.api THEN CloudEnter(c, handle, tk, t, email, pw, hist)
    ELSE Finish(c, "TurkovAPIError", "None")

\* SetValueLocalFailed never going to the cloud
SetValueLocalFailedNoCloud(c, e, d, handle, tk, t, email, pw, hist) ==
    Finish(Logged(c, "local_failed", e), e, "None")

\* SetValueLocalFailed going to the cloud without looking at the api
SetValueLocalFailedAlwaysCloud(c, e, d, handle, tk, t, email, pw, hist) ==
    IF e = "CancelledError" THEN Finish(Logged(c, "local_failed", e), e, "None")
    ELSE CloudEnter(Logged(c, "local_failed", e), handle, tk, t, email, pw,
                    hist)

\* set_value lines 783-797: set_value_local raised e
SetValueLocalFailed(c, e, d, handle, tk, t, email, pw, hist) ==
    IF e = "CancelledError" THEN Finish(Logged(c, "local_failed", e), e, "None")
    ELSE IF e \in LocalCaught /\ d.api
    THEN CloudEnter(Logged(c, "local_failed", e), handle, tk, t, email, pw,
                    hist)
    ELSE Finish(Logged(c, "local_failed", e), e, "None")

\* the device method's own first stretch
DeviceEnter(c, d, handle, tk, t, email, pw, hist) ==
    IF c.dop.name = "set_value"
    THEN SetValueEnter(c, d, handle, tk, t, email, pw, hist)
    ELSE GetStateEnter(c, d, handle, tk, t, email, pw, hist)

LocalFailed(c, e, d, handle, tk, t, email, pw, hist) ==
    IF c.dop.name = "set_value"
    THEN SetValueLocalFailed(c, e, d, handle, tk, t, email, pw, hist)
    ELSE GetStateLocalFailed(c, e, d, handle, tk, t, email, pw, hist)

(***************************************************************************)
(* The commands of a device, lines 868-1003: each validates its argument   *)
(* and calls set_value once.                                               *)
(***************************************************************************)
\* what a command does before its await: it raises e, or calls
\* set_value(key, value)
Rejects(e) == [exc |-> e, key |-> "", value |-> PyNone]
Dispatch(key, value) == [exc |-> "none", key |-> key, value |-> value]

\* the truth value of v in a condition
Truthy(v) == ToBool(v).v.n = 1

\* lines 906-915: turn_on if the argument, or is_on without one, is true
toggle(d, turn_on) ==
    LET on == IF turn_on = PyNone THEN d.is_on ELSE turn_on
    IN Dispatch("on", PyStr(IF Truthy(on) THEN "true" ELSE "false"))

\* lines 949-952
toggle_fireplace(d, enable) ==
    LET en == IF enable = PyNone THEN d.fireplace ELSE enable
    IN Dispatch("firep", ToBool(en).v)

\* line 924: fan_speed in ("auto", "0", "1", "2", "3")
FanSpeeds == {"auto", "0", "1", "2", "3"}

set_fan_speed(fan_speed) ==
    IF \E x \in FanSpeeds : PyEq(fan_speed, PyStr(x))
    THEN Dispatch("fan_speed", fan_speed)
    ELSE Rejects("TurkovAPIValueError")

\* InRange with the bounds left out
InRangeStrict(lo, x, hi) == lo < x /\ x < hi

\* lo <= x <= hi
InRange(lo, x, hi) == lo <= x /\ x <= hi

\* lines 929-937
set_target_temperature(target_temperature) ==
    LET t == ToInt(target_temperature)
    IN IF t.exc # "none" THEN Rejects(t.exc)
       ELSE IF ~InRange(15, t.v.n, 50) THEN Rejects("TurkovAPIValueError")
       ELSE Dispatch("temp_sp", t.v)

\* lines 939-947
set_target_humidity(target_humidity) ==
    LET h == ToInt(target_humidity)
    IN IF h.exc # "none" THEN Rejects(h.exc)
       ELSE IF ~InRange(40, h.v.n, 100) THEN Rejects("TurkovAPIValueError")
       ELSE Dispatch("hum_sp", h.v)

\* the command cm called on the device d
RunCommand(cm, d) ==
    CASE cm.name = "toggle" -> toggle(d, cm.arg)
      [] cm.name = "turn_on" -> Dispatch("on", PyStr("true"))
      [] cm.name = "turn_off" -> Dispatch("on", PyStr("false"))
      [] cm.name = "set_fan_speed" -> set_fan_speed(cm.arg)
      [] cm.name = "set_target_temperature" -> set_target_temperature(cm.arg)
      [] cm.name = "set_target_humidity" -> set_target_humidity(cm.arg)
      [] cm.name = "toggle_fireplace" -> toggle_fireplace(d, cm.arg)
      [] cm.name = "turn_off_hvac" -> Dispatch("mode", PyStr("0"))
      [] cm.name = "turn_on_heater" -> Dispatch("mode", PyStr("1"))
      [] cm.name = "set_first_relay_name" -> Dispatch("relay_1_name", cm.arg)

\* AfterCommand with the assignment of line 953 in force
AfterCommandAssigning(c, d) ==
    IF c.cmd.key = "firep" THEN [d EXCEPT !.fireplace = c.cmd.value] ELSE d

\* what follows `await self.set_value(...)` in a command: nothing (the
\* assignments of lines 953, 965, 977, 987, 993 and 1003 are comments)
AfterCommand(c, d) == d

\* AfterGetState applying the payload although get_state returned None
AfterGetStateIgnoringNone(c, d, nodata, data) ==
    IF c.dop.name # "update_state"
    THEN [c |-> Finish(c, "none", IF nodata THEN "None" ELSE "device_data"),
          dev |-> AfterCommand(c, d)]
    ELSE LET u == UpdateState(d, TargetId(c.dop), FALSE, data, c.dop.mark)
         IN [c |-> [Finish(c, u.exc, "None") EXCEPT !.changed = u.changed],
             dev |-> u.dev]

\* get_state returned to the method that called it: get_state itself
\* returns the payload, update_state (lines 812-866) applies it to the
\* device d
AfterGetState(c, d, nodata, data) ==
    IF c.dop.name # "update_state"
    THEN [c |-> Finish(c, "none", IF nodata THEN "None" ELSE "device_data"),
          dev |-> AfterCommand(c, d)]
    ELSE LET u == UpdateState(d, TargetId(c.dop), nodata, data, c.dop.mark)
         IN [c |-> [Finish(c, u.exc, "None") EXCEPT !.changed = u.changed],
             dev |-> u.dev]

(***************************************************************************)
(* The inputs: what the callers ask and what the servers answer.           *)
(***************************************************************************)
\* One decoded sign-in / refresh object with nothing wrong but, possibly,
\* its expiries, which the time of arrival decides.
GoodAuthData(A, AE, R, RE) == AuthData(A, AE, R, RE)

\* the objects with one thing wrong, everything else being as in
\* AuthData({"a1"}, {2 * Margin}, {"r1"}, {2 * Margin})
DefectiveAuthData ==
    AuthData({Missing, EmptyTok}, {2 * Margin}, {"r1"}, {2 * Margin})
    \cup AuthData({"a1"}, {MissingExp, NonIntExp}, {"r1"}, {2 * Margin})
    \cup AuthData({"a1"}, {2 * Margin}, {Missing, EmptyTok}, {2 * Margin})
    \cup AuthData({"a1"}, {2 * Margin}, {"r1"}, {MissingExp, NonIntExp})
    \cup AuthData({EmptyTok}, {2 * Margin}, {EmptyTok}, {2 * Margin})

\* the answers to POST /user/signin and GET /user/token
AuthResponses ==
    {AuthFailure("transport"), AuthFailure("badjson")}
    \cup GoodAuthData({"a1"}, ExpiryVals, {"r1"}, ExpiryVals)
    \cup GoodAuthData({"a2"}, {2 * Margin}, {"r2"}, {2 * Margin})
    \cup DefectiveAuthData

\* a few of them: two that are stored, with different tokens, and two that
\* are not
FewAuthResponses ==
    {AuthFailure("badjson")}
    \cup AuthData({"a1"}, {2 * Margin}, {"r1"}, {2 * Margin})
    \cup AuthData({"a2"}, {2 * Margin}, {"r2"}, {2 * Margin, MissingExp})

NoTokens ==
    [access_token |-> NoneTok, access_token_expires_at |-> NoneExp,
     refresh_token |-> NoneTok, refresh_token_expires_at |-> NoneExp]

FreshTokens ==
    [access_token |-> "a0", access_token_expires_at |-> 2 * Margin,
     refresh_token |-> "r0", refresh_token_expires_at |-> 2 * Margin]

\* the token fields the constructor may be given: none, all of them, an
\* access token at the end of its life, a token without an expiry
SeedTokens ==
    {NoTokens, FreshTokens,
     [FreshTokens EXCEPT !.access_token_expires_at = Margin + 1],
     [FreshTokens EXCEPT !.access_token_expires_at = Margin + 1,
                         !.refresh_token_expires_at = Margin + 1],
     [FreshTokens EXCEPT !.access_token_expires_at = NoneExp,
                         !.refresh_token = NoneTok]}

\* an entry of the "devices" list: a JSON object as a function of its keys
Entry(id, keys, v) == [k \in keys \cup {"_id"} |-> IF k = "_id" THEN id ELSE v]
EntryNoId(keys, v) == [k \in keys |-> v]

Entries ==
    {EntryNoId({"deviceName"}, "v1"), Entry(EmptyTok, MetaKeys, "v1")}
    \cup {Entry(id, MetaKeys, "v1") : id \in DeviceIds}
    \cup {Entry("d1", {"deviceName", "pin"}, "v2")}

RECURSIVE SeqsUpTo(_, _)
SeqsUpTo(S, n) ==
    IF n = 0 THEN {<< >>}
    ELSE LET shorter == SeqsUpTo(S, n - 1)
         IN shorter \cup {Append(s, x) : s \in shorter, x \in S}

\* the decoded object of GET /user: the top-level keys it has, and their
\* values
UserBody(keys, devs, email, name) ==
    [keys |-> keys, devices |-> devs, userEmail |-> email,
     firstName |-> name, lastName |-> name, fathersName |-> name]

NoBody == UserBody({}, << >>, "u", "n0")

\* the payload of a response that has none
NoData == [k \in {} |-> PyNone]

\* a response to a request of a wrapped function, or the exception the
\* request raises instead
Raised(k) ==
    [kind |-> k, status |-> StatusOK, etag |-> NoneTok, json |-> FALSE,
     body |-> NoBody, shape |-> "ok", message |-> Missing, data |-> NoData]

Http(status, etag, json, body, shape, message) ==
    [kind |-> "http", status |-> status, etag |-> etag, json |-> json,
     body |-> body, shape |-> shape, message |-> message, data |-> NoData]

\* a response whose JSON holds the device payload data: GET /user/devices
\* (an array whose last element is the payload as text) or the device's own
\* GET /state
HttpData(etag, data) ==
    [Http(StatusOK, etag, TRUE, NoBody, "ok", Missing) EXCEPT !.data = data]

NoFnResponse == Raised("none")

Raises == {Raised("HTTPForbidden"), Raised("HTTPUnauthorized"), Raised("ClientError")}

ETags == {NoneTok, "e1", "e2"}

\* GET /user: every device list of the model
UserDataResponses ==
    Raises
    \cup {Http(NotModified, e, FALSE, NoBody, "ok", Missing) : e \in ETags}
    \cup {Http(StatusOK, NoneTok, FALSE, NoBody, "ok", Missing)}
    \cup {Http(StatusOK, NoneTok, TRUE,
               UserBody(RequiredKeys \ {k}, << >>, "u", "n1"), "ok", Missing)
            : k \in RequiredKeys}
    \cup {Http(st, e, TRUE, UserBody(RequiredKeys, ds, "u", n), "ok", Missing)
            : st \in {StatusOK}, e \in {NoneTok, "e1"},
              ds \in SeqsUpTo(Entries, MaxDevs), n \in {"n1"}}

\* GET /user: one device list
FewUserDataResponses ==
    Raises
    \cup {Http(NotModified, NoneTok, FALSE, NoBody, "ok", Missing),
          Http(StatusOK, NoneTok, FALSE, NoBody, "ok", Missing),
          Http(StatusOK, NoneTok, TRUE,
               UserBody(RequiredKeys \ {"devices"}, << >>, "u", "n1"),
               "ok", Missing)}
    \cup {Http(StatusOK, "e1", TRUE,
               UserBody(RequiredKeys, << Entry("d1", {}, "v1") >>, em, "n1"),
               "ok", Missing) : em \in {"u"}}

\* GET /user/devices
DeviceStateResponses ==
    Raises
    \cup {Http(NotModified, NoneTok, FALSE, NoBody, "ok", Missing),
          Http(StatusOK, NoneTok, FALSE, NoBody, "ok", Missing)}
    \cup {Http(StatusOK, e, TRUE, NoBody, sh, Missing)
            : e \in {"e1"},
              sh \in {"notlist", "empty", "badtext", "nontext", "notdict", "ok"}}

\* POST /user/device/<id>
SetValueResponses ==
    Raises
    \cup {Http(StatusOK, NoneTok, FALSE, NoBody, "ok", Missing)}
    \cup {Http(StatusOK, NoneTok, TRUE, NoBody, "ok", m)
            : m \in {Missing, "success", "busy"}}

FewFnResponses(o) ==
    CASE o.name = "update_user_data" -> FewUserDataResponses
      [] o.name = "get_device_state" -> DeviceStateResponses
      [] o.name = "set_device_value" -> SetValueResponses
      [] OTHER -> {}

Op(name, force, dev) == [name |-> name, force |-> force, dev |-> dev]

WrappedOps ==
    {Op("update_user_data", f, "d1") : f \in BOOLEAN}
    \cup {Op("get_device_state", f, "d1") : f \in BOOLEAN}
    \cup {Op("set_device_value", FALSE, "d1")}

AllOps == WrappedOps \cup {Op("authenticate", FALSE, "d1")}

\* the wire keys of the model's mapping, and two values a device reports
\* under each
WireKeys == {ATTRIBUTE_KEY_MAPPING[i].key : i \in DOMAIN ATTRIBUTE_KEY_MAPPING}

WireVal(key, c) ==
    CASE key = "on" -> IF c = 1 THEN PyBool(TRUE) ELSE PyInt(1)
      [] key = "fan_speed" -> IF c = 1 THEN PyInt(1) ELSE PyStr("auto")
      [] key = "temp_sp" -> IF c = 1 THEN PyInt(21) ELSE PyStr("21.5")
      [] key = "out_temp" -> IF c = 1 THEN PyInt(215) ELSE PyInt(50)
      [] key = "image" -> IF c = 1 THEN PyStr("img1") ELSE PyStr("")
      [] key = "hum_sp" -> IF c = 1 THEN PyFloat(4050) ELSE PyStr("45")
      [] OTHER -> IF c = 1 THEN PyInt(1) ELSE PyStr("")

\* the payload that has, for each key, no value (0) or its value 1 or 2
PayloadOf(f) == [k \in {x \in WireKeys : f[x] # 0} |-> WireVal(k, f[k])]

\* every key alike, or all but one alike
PayloadChoices ==
    {[k \in WireKeys |-> IF k = odd THEN c2 ELSE c1]
        : odd \in WireKeys, c1 \in 0..2, c2 \in 0..2}

\* payloads with a value its converter rejects: float(None), int("x")
BadPayloads ==
    {[PayloadOf([k \in WireKeys |-> 1]) EXCEPT !["temp_sp"] = PyNone],
     [PayloadOf([k \in WireKeys |-> 2]) EXCEPT !["hum_sp"] = PyStr("x")]}

DevicePayloads == {PayloadOf(f) : f \in PayloadChoices} \cup BadPayloads

FewDevicePayloads ==
    {PayloadOf([k \in WireKeys |-> c]) : c \in {1}}

\* GET http://host:port/state and POST /command on the device itself
LocalResponses(payloads) ==
    {Raised(e) : e \in LocalCaught} \cup {HttpData(NoneTok, d) : d \in payloads}

\* GET /user/devices with the payloads given
CloudStateResponses(payloads) ==
    DeviceStateResponses
    \cup {HttpData(e, d) : e \in {NoneTok, "e1"}, d \in payloads}

\* what the device and the cloud answer to update_state in SpecDev
DevLocalResponses ==
    {Raised("ClientError")} \cup {HttpData(NoneTok, d) : d \in DevicePayloads}

DevCloudResponses ==
    {Raised("HTTPUnauthorized")}
    \cup (DeviceStateResponses \ Raises)
    \cup {HttpData(e, d) : e \in {NoneTok, "e2"}, d \in DevicePayloads}

DevAuthResponses ==
    {AuthFailure("badjson")}
    \cup AuthData({"a1"}, {2 * Margin}, {"r1"}, {2 * Margin})

\* what they answer to get_state and set_value in SpecFallback
FallbackLocalResponses == LocalResponses(FewDevicePayloads)

FallbackCloudResponses(o) ==
    IF o.name = "set_device_value" THEN SetValueResponses
    ELSE CloudStateResponses(FewDevicePayloads)

\* the calls of the device methods
UpdateStateOps ==
    {DevOp("update_state", "d1", f, m) : f \in BOOLEAN, m \in BOOLEAN}

FallbackOps ==
    {DevOp("get_state", tg, f, FALSE) : tg \in {"d1", Solo}, f \in BOOLEAN}
    \cup {DevOp("set_value", tg, FALSE, FALSE) : tg \in {"d1", Solo}}

NoProfile ==
    [first_name |-> NoneTok, last_name |-> NoneTok, middle_name |-> NoneTok]

(***************************************************************************)
(* The actions.                                                            *)
(***************************************************************************)
Tick ==
    /\ now < MaxNow
    /\ now' = now + 1
    /\ UNCHANGED << sessionVars, tok, co, accepted, last, standalone >>

\* coroutine p calls operation o
Call(p, o) ==
    /\ co[p].pc = "idle"
    /\ LET c == [IdleCo EXCEPT
                    !.op = o, !.handle = handle_authentication,
                    !.needed = access_token_needs_update(tok, now),
                    !.known = DOMAIN devices]
       IN co' = [co EXCEPT ![p] =
                    IF o.name = "authenticate"
                    THEN AuthEnter(c, "auth", tok, now, user_email, password)
                    ELSE WrapperEnter(c, handle_authentication, tok, now,
                                      user_email, password, request_history)]
    /\ UNCHANGED << now, sessionVars, tok, accepted, last, standalone >>

\* the response r to the exchange p awaits arrives
ExchReply(p, r) ==
    /\ co[p].exch \in {"refresh", "cred"}
    /\ LET c == co[p]
           res == ProcessAuth(r, tok, now)
       IN /\ tok' = res.tok
          /\ accepted' = IF res.exc = "none" THEN r ELSE accepted
          /\ co' = [co EXCEPT ![p] =
                IF res.exc = "none"
                    THEN AuthReturned(c, res.tok, request_history)
                ELSE IF c.exch = "refresh"
                    THEN RefreshFailed(c, res.exc, user_email, password)
                ELSE AuthRaised(c, res.exc)]
    /\ UNCHANGED << now, sessionVars, last, standalone >>

\* p is cancelled while it awaits the exchange's request or response
ExchCancel(p) ==
    /\ co[p].exch \in {"refresh", "cred"}
    /\ co' = [co EXCEPT ![p] =
                IF co[p].exch = "refresh"
                THEN RefreshFailed(co[p], "CancelledError", user_email,
                                   password)
                ELSE AuthRaised(co[p], "CancelledError")]
    /\ UNCHANGED << now, sessionVars, tok, accepted, last, standalone >>

\* p is cancelled while the exchange's "async with" releases the response,
\* after _process_auth_request has returned
ExchCancelAtExit(p, r) ==
    /\ co[p].exch \in {"refresh", "cred"}
    /\ LET res == ProcessAuth(r, tok, now)
       IN /\ res.exc = "none"
          /\ tok' = res.tok
          /\ accepted' = r
          /\ co' = [co EXCEPT ![p] =
                IF co[p].exch = "refresh"
                THEN RefreshFailed(co[p], "CancelledError", user_email,
                                   password)
                ELSE AuthRaised(co[p], "CancelledError")]
    /\ UNCHANGED << now, sessionVars, last, standalone >>

\* the response r to the request of p's wrapped function arrives; when
\* the wrapper returns to a device method, what the method does next (for
\* update_state: applying the payload) is in the same stretch
FnReply(p, r) ==
    /\ co[p].pc \in {"fn1", "fn2"}
    /\ LET c == co[p]
           out == RunFn(c.op, r, SessionState(user_email, profile, devices,
                                              request_history))
           after == AfterFn(IF out.exc = "none"
                                THEN Logged(c, "fn_returned", "none")
                                ELSE Logged(c, "fn_raised", out.exc),
                            out.exc, out.ret, tok, now,
                            out.s.user_email, password)
           returns == /\ c.dop.name # "none"
                      /\ after.pc = "done"
                      /\ after.exc = "none"
                      /\ c.dop.target \in DOMAIN out.s.devices
           got == AfterGetState(after, out.s.devices[c.dop.target],
                                out.ret = "None", r.data)
       IN /\ user_email' = out.s.user_email
          /\ profile' = out.s.profile
          /\ devices' = IF returns
                        THEN [out.s.devices EXCEPT ![c.dop.target] = got.dev]
                        ELSE out.s.devices
          /\ request_history' = out.s.request_history
          /\ last' = r
          /\ co' = [co EXCEPT ![p] = IF returns THEN got.c ELSE after]
    /\ UNCHANGED << now, handle_authentication, password, tok, accepted,
                    standalone >>

\* p is cancelled while its wrapped function awaits
FnCancel(p) ==
    /\ co[p].pc \in {"fn1", "fn2"}
    /\ co' = [co EXCEPT ![p] =
                Finish(Logged(co[p], "fn_raised", "CancelledError"),
                       "CancelledError", "None")]
    /\ UNCHANGED << now, sessionVars, tok, accepted, last, standalone >>

\* the caller has the result; p is free for the next call
Return(p) ==
    /\ co[p].pc = "done"
    /\ co' = [co EXCEPT ![p] = IdleCo]
    /\ last' = NoFnResponse
    /\ UNCHANGED << now, sessionVars, tok, accepted, standalone >>

\* coroutine p calls the device method o
DevCall(p, o) ==
    /\ co[p].pc = "idle"
    /\ o.target = Solo \/ o.target \in DOMAIN devices
    /\ co' = [co EXCEPT ![p] =
                DeviceEnter([IdleCo EXCEPT !.dop = o,
                                           !.known = DOMAIN devices],
                            TargetDevice(o, devices, standalone),
                            handle_authentication, tok, now, user_email,
                            password, request_history)]
    /\ UNCHANGED << now, sessionVars, tok, accepted, last, standalone >>

\* coroutine p calls the command cm of a device: it raises, or goes on into
\* set_value up to its first await
CmdCall(p, cm, target) ==
    /\ co[p].pc = "idle"
    /\ target = Solo \/ target \in DOMAIN devices
    /\ LET d == IF target = Solo THEN standalone ELSE devices[target]
           r == RunCommand(cm, d)
           c == [IdleCo EXCEPT
                    !.cmd = [cm EXCEPT !.key = r.key, !.value = r.value],
                    !.known = DOMAIN devices]
       IN co' = [co EXCEPT ![p] =
                IF r.exc # "none" THEN Finish(c, r.exc, "None")
                ELSE SetValueEnter(
                        [Logged(c, "set_value", r.key) EXCEPT
                            !.dop = DevOp("set_value", target, FALSE, FALSE)],
                        d, handle_authentication, tok, now, user_email,
                        password, request_history)]
    /\ UNCHANGED << now, sessionVars, tok, accepted, last, standalone >>

\* the device's own endpoint answers p: r.kind is the exception the request
\* or response.json() raises, or "http" with the decoded payload r.data
LocalReply(p, r) ==
    /\ co[p].pc = "local"
    /\ LET c == co[p]
           d == TargetDevice(c.dop, devices, standalone)
           got == AfterGetState(Logged(c, "local_returned", "none"), d,
                                FALSE, r.data)
           failed == LocalFailed(c, r.kind, d, handle_authentication, tok,
                                 now, user_email, password, request_history)
       IN /\ co' = [co EXCEPT ![p] = IF r.kind = "http" THEN got.c
                                     ELSE failed]
          /\ devices' = IF r.kind = "http" /\ c.dop.target # Solo
                        THEN [devices EXCEPT ![c.dop.target] = got.dev]
                        ELSE devices
          /\ standalone' = IF r.kind = "http" /\ c.dop.target = Solo
                           THEN got.dev ELSE standalone
          /\ last' = r
    /\ UNCHANGED << now, handle_authentication, user_email, password, profile,
                    request_history, tok, accepted >>

\* p is cancelled while it awaits the device's own endpoint
LocalCancel(p) ==
    /\ co[p].pc = "local"
    /\ co' = [co EXCEPT ![p] =
                LocalFailed(co[p], "CancelledError",
                            TargetDevice(co[p].dop, devices, standalone),
                            handle_authentication, tok, now, user_email,
                            password, request_history)]
    /\ UNCHANGED << now, sessionVars, tok, accepted, last, standalone >>

(***************************************************************************)
(* Spec: one coroutine uses the session, one call after the other.         *)
(***************************************************************************)
Init ==
    /\ now = 0
    /\ handle_authentication \in BOOLEAN
    /\ user_email = "u"
    /\ password \in {"pw", EmptyTok}
    /\ tok \in SeedTokens
    /\ profile = NoProfile
    /\ devices = [k \in {} |-> NewDevice]
    /\ request_history = [t \in Tags |-> NoTag]
    /\ co = [p \in {1} |-> IdleCo]
    /\ accepted = NoResponse
    /\ last = NoFnResponse
    /\ standalone = StandaloneDevice(NoneTok)

Next ==
    \/ Tick
    \/ \E p \in DOMAIN co : \E o \in AllOps : Call(p, o)
    \/ \E p \in DOMAIN co : \E r \in AuthResponses : ExchReply(p, r)
    \/ \E p \in DOMAIN co : ExchCancel(p)
    \/ \E p \in DOMAIN co : \E r \in AuthResponses : ExchCancelAtExit(p, r)
    \/ \E p \in DOMAIN co : \E r \in FewFnResponses(co[p].op) : FnReply(p, r)
    \/ \E p \in DOMAIN co : FnCancel(p)
    \/ \E p \in DOMAIN co : Return(p)

Spec == Init /\ [][Next]_vars

(***************************************************************************)
(* SpecConc: several coroutines share the session; each calls              *)
(* authenticate() or a wrapped operation, and may be cancelled wherever    *)
(* it awaits.                                                              *)
(***************************************************************************)
ConcOps == {Op("authenticate", FALSE, "d1"), Op("set_device_value", FALSE, "d1")}

ConcFnResponses ==
    {Raised("HTTPUnauthorized"),
     Http(StatusOK, NoneTok, TRUE, NoBody, "ok", "success")}

InitConc ==
    /\ now = 0
    /\ handle_authentication = TRUE
    /\ user_email = "u"
    /\ password = "pw"
    /\ tok \in {NoTokens, FreshTokens}
    /\ profile = NoProfile
    /\ devices = [k \in {} |-> NewDevice]
    /\ request_history = [t \in Tags |-> NoTag]
    /\ co = [p \in 1..NumCo |-> IdleCo]
    /\ accepted = NoResponse
    /\ last = NoFnResponse
    /\ standalone = StandaloneDevice(NoneTok)

NextConc ==
    \/ \E p \in DOMAIN co : \E o \in ConcOps : Call(p, o)
    \/ \E p \in DOMAIN co : \E r \in FewAuthResponses : ExchReply(p, r)
    \/ \E p \in DOMAIN co : ExchCancel(p)
    \/ \E p \in DOMAIN co : \E r \in FewAuthResponses : ExchCancelAtExit(p, r)
    \/ \E p \in DOMAIN co : \E r \in ConcFnResponses : FnReply(p, r)
    \/ \E p \in DOMAIN co : FnCancel(p)
    \/ \E p \in DOMAIN co : Return(p)

SpecConc == InitConc /\ [][NextConc]_vars

(***************************************************************************)
(* SpecSync: one coroutine keeps the registry in step with the account:    *)
(* update_user_data, forced or not, against every device list of the       *)
(* model.                                                                  *)
(***************************************************************************)
SyncOps == {Op("update_user_data", f, "d1") : f \in BOOLEAN}

InitSync ==
    /\ now = 0
    /\ handle_authentication \in BOOLEAN
    /\ user_email = "u"
    /\ password = "pw"
    /\ tok = FreshTokens
    /\ profile = NoProfile
    /\ devices = [k \in {} |-> NewDevice]
    /\ request_history = [t \in Tags |-> NoTag]
    /\ co = [p \in {1} |-> IdleCo]
    /\ accepted = NoResponse
    /\ last = NoFnResponse
    /\ standalone = StandaloneDevice(NoneTok)

NextSync ==
    \/ \E p \in DOMAIN co : \E o \in SyncOps : Call(p, o)
    \/ \E p \in DOMAIN co : \E r \in FewAuthResponses : ExchReply(p, r)
    \/ \E p \in DOMAIN co : \E r \in UserDataResponses : FnReply(p, r)
    \/ \E p \in DOMAIN co : FnCancel(p)
    \/ \E p \in DOMAIN co : Return(p)

SpecSync == InitSync /\ [][NextSync]_vars

(***************************************************************************)
(* SpecMeta: SpecSync with a registry that holds, at the start, no device  *)
(* or the device d1 with state attributes an update_state has set.         *)
(***************************************************************************)
\* d1 after an update_state that read every key
LitDevice ==
    UpdateState([NewDevice EXCEPT !.host = "h", !.type = "Zenit"], "d1",
                FALSE, PayloadOf([k \in WireKeys |-> 1]), FALSE).dev

InitMeta ==
    /\ now = 0
    /\ handle_authentication = FALSE
    /\ user_email = "u"
    /\ password = "pw"
    /\ tok = FreshTokens
    /\ profile = NoProfile
    /\ devices \in {[k \in {} |-> NewDevice], [k \in {"d1"} |-> LitDevice]}
    /\ request_history = [t \in Tags |-> NoTag]
    /\ co = [p \in {1} |-> IdleCo]
    /\ accepted = NoResponse
    /\ last = NoFnResponse
    /\ standalone = StandaloneDevice(NoneTok)

NextMeta ==
    \/ \E p \in DOMAIN co : \E o \in SyncOps : Call(p, o)
    \/ \E p \in DOMAIN co : \E r \in UserDataResponses : FnReply(p, r)
    \/ \E p \in DOMAIN co : Return(p)

SpecMeta == InitMeta /\ [][NextMeta]_vars

(***************************************************************************)
(* SpecDev: one coroutine calls update_state once on the device d1 of the  *)
(* registry.  The device has a local address or not and a type with a      *)
(* default image or not, and holds what earlier updates left; the device   *)
(* and the cloud answer with every payload of the model.                   *)
(***************************************************************************)
\* d1 as update_user_data created it, with the address and the type given
DeviceWith(h, ty) == [NewDevice EXCEPT !.host = h, !.type = ty]

\* d1 new, or after an update_state that read all keys alike
StoredDevices ==
    {DeviceWith(h, ty) : h \in {NoneTok, "h"}, ty \in {NoneTok, "Zenit"}}
    \cup {UpdateState(DeviceWith(h, ty), "d1", FALSE,
                      PayloadOf([k \in WireKeys |-> c]), FALSE).dev
            : h \in {NoneTok, "h"}, ty \in {NoneTok, "Zenit"}, c \in 1..2}

InitDev ==
    /\ now = 0
    /\ handle_authentication = TRUE
    /\ user_email = "u"
    /\ password = "pw"
    /\ tok = FreshTokens
    /\ profile = NoProfile
    /\ devices \in {[k \in {"d1"} |-> d] : d \in StoredDevices}
    /\ request_history \in
            {[t \in Tags |-> IF t = DeviceTag("d1") THEN e ELSE NoTag]
                : e \in {NoTag, "e1"}}
    /\ co = [p \in {1} |-> IdleCo]
    /\ accepted = NoResponse
    /\ last = NoFnResponse
    /\ standalone = StandaloneDevice(NoneTok)

NextDev ==
    \/ \E p \in DOMAIN co : \E o \in UpdateStateOps : DevCall(p, o)
    \/ \E p \in DOMAIN co : \E r \in DevLocalResponses : LocalReply(p, r)
    \/ \E p \in DOMAIN co : LocalCancel(p)
    \/ \E p \in DOMAIN co : \E r \in DevCloudResponses : FnReply(p, r)
    \/ \E p \in DOMAIN co : \E r \in DevAuthResponses : ExchReply(p, r)

SpecDev == InitDev /\ [][NextDev]_vars

(***************************************************************************)
(* SpecFallback: one coroutine calls get_state and set_value on the        *)
(* device d1 of the registry and on the standalone device, each with a     *)
(* local address or without; it may be cancelled wherever it awaits.       *)
(***************************************************************************)
InitFallback ==
    /\ now = 0
    /\ handle_authentication \in BOOLEAN
    /\ user_email = "u"
    /\ password = "pw"
    /\ tok = FreshTokens
    /\ profile = NoProfile
    /\ devices \in {[k \in {"d1"} |-> [NewDevice EXCEPT !.host = h]]
                        : h \in {NoneTok, "h"}}
    /\ request_history = [t \in Tags |-> NoTag]
    /\ co = [p \in {1} |-> IdleCo]
    /\ accepted = NoResponse
    /\ last = NoFnResponse
    /\ standalone \in {StandaloneDevice(h) : h \in {NoneTok, "h"}}

NextFallback ==
    \/ \E p \in DOMAIN co : \E o \in FallbackOps : DevCall(p, o)
    \/ \E p \in DOMAIN co : \E r \in FallbackLocalResponses : LocalReply(p, r)
    \/ \E p \in DOMAIN co : LocalCancel(p)
    \/ \E p \in DOMAIN co : \E r \in FallbackCloudResponses(co[p].op) :
            FnReply(p, r)
    \/ \E p \in DOMAIN co : FnCancel(p)
    \/ \E p \in DOMAIN co : \E r \in FewAuthResponses : ExchReply(p, r)
    \/ \E p \in DOMAIN co : ExchCancel(p)
    \/ \E p \in DOMAIN co : Return(p)

SpecFallback == InitFallback /\ [][NextFallback]_vars

(***************************************************************************)
(* SpecCache: one coroutine fetches the account and the state of d1 and    *)
(* d2, forced or not, on a session that does not handle authentication;    *)
(* the answers come with a validator or without, and are sound, not        *)
(* modified, undecodable or of a wrong shape.                              *)
(***************************************************************************)
CacheOps ==
    {Op("update_user_data", f, "d1") : f \in BOOLEAN}
    \cup {Op("get_device_state", f, id) : f \in BOOLEAN, id \in DeviceIds}

\* GET /user and GET /user/devices
CacheResponses(o) ==
    {Raised("ClientError")}
    \cup {Http(NotModified, e, FALSE, NoBody, "ok", Missing)
            : e \in {NoneTok, "e2"}}
    \cup {Http(StatusOK, "e2", FALSE, NoBody, "ok", Missing)}
    \cup IF o.name = "update_user_data"
         THEN {Http(StatusOK, "e2", TRUE,
                    UserBody(RequiredKeys \ {"devices"}, << >>, "u", "n1"),
                    "ok", Missing)}
              \cup {Http(StatusOK, e, TRUE,
                         UserBody(RequiredKeys, << Entry("d1", {}, "v1") >>,
                                  "u", "n1"),
                         "ok", Missing) : e \in {NoneTok, "e1", "e2"}}
         ELSE {Http(StatusOK, "e2", TRUE, NoBody, sh, Missing)
                    : sh \in {"empty", "notdict"}}
              \cup {HttpData(e, d) : e \in {NoneTok, "e1", "e2"},
                                     d \in FewDevicePayloads}

InitCache ==
    /\ now = 0
    /\ handle_authentication = FALSE
    /\ user_email = "u"
    /\ password = "pw"
    /\ tok = FreshTokens
    /\ profile = NoProfile
    /\ devices = [k \in {} |-> NewDevice]
    /\ request_history = [t \in Tags |-> NoTag]
    /\ co = [p \in {1} |-> IdleCo]
    /\ accepted = NoResponse
    /\ last = NoFnResponse
    /\ standalone = StandaloneDevice(NoneTok)

NextCache ==
    \/ \E p \in DOMAIN co : \E o \in CacheOps : Call(p, o)
    \/ \E p \in DOMAIN co : \E r \in CacheResponses(co[p].op) : FnReply(p, r)
    \/ \E p \in DOMAIN co : Return(p)

SpecCache == InitCache /\ [][NextCache]_vars

(***************************************************************************)
(* SpecCmd: one coroutine calls the commands of the device d1 of the       *)
(* registry and of the standalone device, and update_state in between;     *)
(* the devices are on, off or of unknown state, d1 with a local address    *)
(* or without.                                                             *)
(***************************************************************************)
\* the commands and their arguments: inside the domain, at its bounds and
\* outside
Commands ==
    {Cmd("toggle", a) : a \in {PyNone, PyBool(TRUE), PyBool(FALSE)}}
    \cup {Cmd(n, PyNone) : n \in {"turn_on", "turn_off", "turn_off_hvac",
                                  "turn_on_heater"}}
    \cup {Cmd("set_fan_speed", a)
            : a \in {PyStr("auto"), PyStr("3"), PyStr("4"), PyInt(1)}}
    \cup {Cmd("set_target_temperature", a)
            : a \in {PyInt(14), PyInt(15), PyInt(50), PyInt(51), PyStr("x")}}
    \cup {Cmd("set_target_humidity", PyInt(i)) : i \in {39, 40, 100, 101}}
    \cup {Cmd("toggle_fireplace", a) : a \in {PyNone, PyBool(TRUE)}}
    \cup {Cmd("set_first_relay_name", PyStr("r"))}

InitCmd ==
    /\ now = 0
    /\ handle_authentication = FALSE
    /\ user_email = "u"
    /\ password = "pw"
    /\ tok = FreshTokens
    /\ profile = NoProfile
    /\ devices \in {[k \in {"d1"} |->
                        [NewDevice EXCEPT !.host = h, !.is_on = v,
                                          !.fireplace = v]]
                        : h \in {NoneTok, "h"},
                          v \in {PyNone, PyBool(TRUE), PyBool(FALSE)}}
    /\ request_history = [t \in Tags |-> NoTag]
    /\ co = [p \in {1} |-> IdleCo]
    /\ accepted = NoResponse
    /\ last = NoFnResponse
    /\ standalone \in {[StandaloneDevice("h") EXCEPT !.is_on = v,
                                                     !.fireplace = v]
                            : v \in {PyNone, PyBool(TRUE), PyBool(FALSE)}}

NextCmd ==
    \/ \E p \in DOMAIN co : \E cm \in Commands : \E tg \in {"d1", Solo} :
            CmdCall(p, cm, tg)
    \/ \E p \in DOMAIN co : \E tg \in {"d1", Solo} :
            DevCall(p, DevOp("update_state", tg, FALSE, FALSE))
    \/ \E p \in DOMAIN co : \E r \in FallbackLocalResponses : LocalReply(p, r)
    \/ \E p \in DOMAIN co : LocalCancel(p)
    \/ \E p \in DOMAIN co : \E r \in FallbackCloudResponses(co[p].op) :
            FnReply(p, r)
    \/ \E p \in DOMAIN co : FnCancel(p)
    \/ \E p \in DOMAIN co : Return(p)

SpecCmd == InitCmd /\ [][NextCmd]_vars

(***************************************************************************)
(* SpecEvict: one coroutine syncs the registry with an account that lists  *)
(* d1 or nothing, and calls update_state on d1 while the registry has it.  *)
(* The device endpoint answers 304 only to a request that carries a        *)
(* validator.                                                              *)
(***************************************************************************)
InitEvict ==
    /\ now = 0
    /\ handle_authentication = FALSE
    /\ user_email = "u"
    /\ password = "pw"
    /\ tok = FreshTokens
    /\ profile = NoProfile
    /\ devices = [k \in {} |-> NewDevice]
    /\ request_history = [t \in Tags |-> NoTag]
    /\ co = [p \in {1} |-> IdleCo]
    /\ accepted = NoResponse
    /\ last = NoFnResponse
    /\ standalone = StandaloneDevice(NoneTok)

NextEvict ==
    \/ \E p \in DOMAIN co : \E o \in SyncOps : Call(p, o)
    \/ \E p \in DOMAIN co : \E f \in BOOLEAN :
            DevCall(p, DevOp("update_state", "d1", f, FALSE))
    \/ \E p \in DOMAIN co :
        \E r \in IF co[p].op.name = "update_user_data"
                 THEN {Http(NotModified, NoneTok, FALSE, NoBody, "ok", Missing)}
                      \cup {Http(StatusOK, e, TRUE,
                                 UserBody(RequiredKeys, ds, "u", "n1"),
                                 "ok", Missing)
                              : e \in {NoneTok, "e1"},
                                ds \in {<< >>, << Entry("d1", MetaKeys, "v1") >>}}
                 ELSE {Http(NotModified, NoneTok, FALSE, NoBody, "ok", Missing)
                          : x \in IF co[p].req.inm = NoTag THEN {} ELSE {1}}
                      \cup {HttpData(e, d) : e \in {NoneTok, "e1"},
                                             d \in FewDevicePayloads} :
            FnReply(p, r)
    \/ \E p \in DOMAIN co : Return(p)

SpecEvict == InitEvict /\ [][NextEvict]_vars

(***************************************************************************)
(* Properties.                                                             *)
(***************************************************************************)
Wrapped == {"update_user_data", "get_device_state", "set_device_value"}

\* the places of the log where e happened
At(L, e) == {i \in DOMAIN L : L[i].ev = e}
Count(L, e) == Cardinality(At(L, e))
\* what the i-th execution of the wrapped function ended with, in order
FnEnds(L) == At(L, "fn_returned") \cup At(L, "fn_raised")
FirstOf(S) == CHOOSE i \in S : \A j \in S : i <= j
LastOf(S) == CHOOSE i \in S : \A j \in S : j <= i
\* the call authenticated before its first request
PreAuthed(L) ==
    \E i \in At(L, "auth_ok") : \A j \in At(L, "request") : i < j
\* the first execution of the wrapped function raised an authorization error
FirstFnUnauthorized(L) ==
    /\ FnEnds(L) # {}
    /\ L[FirstOf(FnEnds(L))].info \in AuthClass

\* how far a call is: every step of a call moves it forward
Rank(c) ==
    CASE c.pc = "idle" -> 0
      [] c.pc \in {"auth", "preauth"} -> IF c.exch = "refresh" THEN 1 ELSE 2
      [] c.pc = "fn1" -> 3
      [] c.pc = "reauth" -> IF c.exch = "refresh" THEN 4 ELSE 5
      [] c.pc = "fn2" -> 6
      [] c.pc = "done" -> 7

\* C1: one call of a wrapped operation calls authenticate() at most once and
\* runs the wrapped function at most twice, whatever the servers answer, and
\* every step of the call brings it nearer to its end: it cannot loop.
C1_BoundedRetry ==
    /\ [](\A p \in DOMAIN co :
            co[p].op.name \in Wrapped =>
                /\ Count(co[p].log, "authenticate") <= 1
                /\ Count(co[p].log, "request") <= 2)
    /\ [][\A p \in DOMAIN co :
            (co[p].pc \notin {"idle", "done"} /\ co'[p] # co[p]) =>
                Rank(co'[p]) > Rank(co[p])]_vars

\* a call that re-authenticated, ran the wrapped function twice and ended
C1_Witness ==
    \E p \in DOMAIN co :
        /\ co[p].pc = "done"
        /\ co[p].op.name \in Wrapped
        /\ Count(co[p].log, "authenticate") = 1
        /\ Count(co[p].log, "request") = 2

\* C2: when the call authenticated before its request, or the session does
\* not handle authentication, and the wrapped function raises an
\* authorization error, the call ends at once with
\* TurkovAPIAuthenticationError: no further authenticate(), no second request.
C2_NoRetryAfterPreAuth ==
    \A p \in DOMAIN co :
        (/\ co[p].op.name \in Wrapped
         /\ PreAuthed(co[p].log) \/ ~co[p].handle
         /\ FirstFnUnauthorized(co[p].log)) =>
            /\ co[p].pc = "done"
            /\ co[p].exc = "TurkovAPIAuthenticationError"
            /\ Count(co[p].log, "request") = 1
            /\ Count(co[p].log, "authenticate") = (IF co[p].handle THEN 1 ELSE 0)

\* after a pre-authentication, the request was answered 401
C2_Witness ==
    \E p \in DOMAIN co :
        /\ co[p].op.name \in Wrapped
        /\ PreAuthed(co[p].log)
        /\ FirstFnUnauthorized(co[p].log)
        /\ co[p].log[LastOf(FnEnds(co[p].log))].info = "HTTPUnauthorized"
        /\ co[p].exc = "TurkovAPIAuthenticationError"

\* C3 (as claimed): when the first execution raises an authorization error
\* and the call had not authenticated, the call authenticates once and runs
\* the wrapped function once more; if that raises an authorization error of
\* any kind again, the call ends with TurkovAPIAuthenticationError.
C3_RetryFailureIsAuthenticationError ==
    \A p \in DOMAIN co :
        (/\ co[p].op.name \in Wrapped
         /\ co[p].pc = "done"
         /\ co[p].handle /\ ~PreAuthed(co[p].log)
         /\ FirstFnUnauthorized(co[p].log)
         /\ Count(co[p].log, "auth_ok") = 1) =>
            /\ Count(co[p].log, "authenticate") = 1
            /\ Count(co[p].log, "request") = 2
            /\ Cardinality(FnEnds(co[p].log)) = 2
            /\ co[p].log[LastOf(FnEnds(co[p].log))].info \in AuthClass
                    => co[p].exc = "TurkovAPIAuthenticationError"

\* C4: if the session handles authentication and the access token needs an
\* update when the call begins, authenticate() has returned before the first
\* request is sent, and if it raises, no request is sent and the call ends
\* with what it raised; if the session does not handle authentication, the
\* wrapper never calls authenticate().
C4_PreAuthBeforeRequest ==
    \A p \in DOMAIN co :
        co[p].op.name \in Wrapped =>
            LET L == co[p].log IN
            /\ (co[p].handle /\ co[p].needed) =>
                  /\ L # << >> /\ L[1].ev = "authenticate"
                  /\ \A j \in At(L, "request") :
                        \E i \in At(L, "auth_ok") : i < j
                  /\ (At(L, "auth_raised") # {} /\ At(L, "auth_ok") = {}) =>
                        /\ At(L, "request") = {}
                        /\ co[p].pc = "done"
                        /\ co[p].exc = L[Len(L)].info
                        /\ co[p].exc # "none"
            /\ ~co[p].handle => At(L, "authenticate") = {}

\* a request in flight after a pre-authentication, with the new token
C4_Witness ==
    \E p \in DOMAIN co :
        /\ co[p].op.name \in Wrapped
        /\ co[p].handle /\ co[p].needed
        /\ co[p].pc = "fn1"
        /\ PreAuthed(co[p].log)
        /\ co[p].req.token \in AccessTokens

\* what follows place i of the log
Then(L, i, e) == i < Len(L) /\ L[i + 1].ev = e

\* C5: authenticate() tries the refresh exchange first if the refresh token
\* is usable and then makes no credential exchange if it succeeds, exactly
\* one if it fails otherwise than by cancellation, and none if it is
\* cancelled; if the refresh token is unusable it makes no refresh exchange and
\* goes to the credential exchange.  At most one refresh exchange precedes at
\* most one credential exchange.
C5_RefreshThenCredentials ==
    \A p \in DOMAIN co :
        LET L == co[p].log
            R == At(L, "refresh")
            C == At(L, "cred")
        IN /\ Cardinality(R) <= 1
           /\ Cardinality(C) <= 1
           /\ \A r \in R : \A c \in C : r < c
           /\ \A a \in At(L, "authenticate") :
                IF L[a].info = "usable"
                THEN Then(L, a, "refresh")
                ELSE R = {} /\ Then(L, a, "cred") /\ Cardinality(C) = 1
           /\ \A r \in R :
                \/ r = Len(L) /\ co[p].exch = "refresh"
                \/ Then(L, r, "auth_ok") /\ C = {}
                \/ /\ Then(L, r, "refresh_failed")
                   /\ L[r + 1].info # "CancelledError"
                   /\ Then(L, r + 1, "cred")
                   /\ Cardinality(C) = 1
                \/ /\ Then(L, r, "auth_raised")
                   /\ L[r + 1].info = "CancelledError"
                   /\ co[p].exc = "CancelledError"
                   /\ C = {}

\* a refresh exchange failed on the transport and the sign-in that followed
\* was stored
C5_Witness ==
    \E p \in DOMAIN co :
        LET L == co[p].log IN
        /\ \E r \in At(L, "refresh") :
                /\ Then(L, r, "refresh_failed")
                /\ L[r + 1].info = "ClientError"
        /\ Count(L, "signin") = 1
        /\ Count(L, "auth_ok") = 1

\* C6 (as claimed): for both tokens, needs_update is true if and only if no
\* token is stored, or no expiry is stored, or expiry - 60 <= now.
C6_NeedsUpdateIffWithinMargin ==
    /\ access_token_needs_update(tok, now) <=>
            \/ Falsy(tok.access_token)
            \/ tok.access_token_expires_at = NoneExp
            \/ tok.access_token_expires_at - Margin <= now
    /\ refresh_token_needs_update(tok, now) <=>
            \/ Falsy(tok.refresh_token)
            \/ tok.refresh_token_expires_at = NoneExp
            \/ tok.refresh_token_expires_at - Margin <= now

\* the response has both tokens, and both expiries are after t
SoundAuthData(r, t) ==
    /\ r.kind = "data"
    /\ r.accessToken # Missing /\ ~Falsy(r.accessToken)
    /\ r.refreshToken # Missing /\ ~Falsy(r.refreshToken)
    /\ r.accessTokenExpiresAt > t
    /\ r.refreshTokenExpiresAt > t

\* C7 (as claimed): an exchange whose response lacks a token, or has an
\* empty one, or carries an expiry <= now is rejected: only a response with
\* both tokens and both expiries in the future is ever stored.
C7_DefectiveResponseRejected ==
    [][accepted' # accepted => SoundAuthData(accepted', now)]_vars

\* the four token fields as response r gives them
WholeOf(r) ==
    [access_token |-> r.accessToken,
     access_token_expires_at |-> r.accessTokenExpiresAt,
     refresh_token |-> r.refreshToken,
     refresh_token_expires_at |-> r.refreshTokenExpiresAt]

\* the stored token fields are the constructor's, or those of one response
TokensWhole ==
    IF accepted = NoResponse THEN tok \in SeedTokens
    ELSE tok = WholeOf(accepted)

\* C8: an exchange that fails leaves the four token fields as they were, and
\* the stored fields are always the constructor's or the four values of one
\* response that had all four.
C8_FailedExchangeKeepsTokens ==
    /\ [](/\ TokensWhole
          /\ accepted # NoResponse =>
                accepted.kind = "data" /\ Extracts(accepted))
    /\ [][accepted' = accepted => tok' = tok]_vars

\* a stored response, and then an exchange that failed
C8_Witness ==
    \E p \in DOMAIN co :
        /\ accepted # NoResponse
        /\ tok = WholeOf(accepted)
        /\ co[p].pc = "done"
        /\ co[p].exc = "TurkovAPIAuthenticationError"
        /\ co[p].log[Len(co[p].log)].ev = "auth_raised"


\* C9: whatever the interleaving of the coroutines sharing the session and
\* wherever an exchange is cancelled, the four token fields seen at any
\* point where a coroutine can run come from one response (or are the
\* constructor's), and they change only by taking all four values of a
\* response that passed the whole validation.
C9_NoTornTokens ==
    /\ [](IF accepted = NoResponse THEN tok \in {NoTokens, FreshTokens}
          ELSE tok = WholeOf(accepted))
    /\ [][tok' # tok =>
            /\ accepted'.kind = "data"
            /\ Accepts(accepted', now)
            /\ tok' = WholeOf(accepted')]_vars

\* tokens of a response are stored, one coroutine was cancelled in its
\* exchange and another still has an exchange in flight
C9_Witness ==
    \E p, q \in DOMAIN co :
        /\ p # q
        /\ accepted # NoResponse
        /\ tok = WholeOf(accepted)
        /\ tok \notin {NoTokens, FreshTokens}
        /\ co[p].exch \in {"refresh", "cred"}
        /\ co[q].pc = "done"
        /\ co[q].exc = "CancelledError"
        /\ \E i \in DOMAIN co[q].log : co[q].log[i] \in
                {Ev("refresh", "sent"), Ev("signin", "sent")}

\* the non-empty ids a device list reports
ReportedIds(ds) ==
    {ds[i]["_id"] : i \in {j \in DOMAIN ds : /\ "_id" \in DOMAIN ds[j]
                                             /\ ds[j]["_id"] # EmptyTok}}

\* update_user_data has returned, and the response it read was not a 304
Synced(p) ==
    /\ co[p].pc = "done"
    /\ co[p].op.name = "update_user_data"
    /\ co[p].exc = "none"
    /\ last.kind = "http"
    /\ last.status # NotModified

\* C10: when update_user_data returns after a response other than 304, the
\* ids of the registry are exactly the non-empty ids of the response's
\* device list: new ids are there, known ids the list lacks are gone, and
\* entries without an id, or with an empty one, change nothing.
C10_RegistryEqualsReportedIds ==
    \A p \in DOMAIN co :
        Synced(p) =>
            /\ DOMAIN devices = ReportedIds(last.body.devices)
            /\ co[p].known \ ReportedIds(last.body.devices)
                    = co[p].known \ DOMAIN devices

\* a sync that removed d1, created d2 and skipped an entry
C10_Witness ==
    \E p \in DOMAIN co :
        /\ Synced(p)
        /\ "d1" \in co[p].known
        /\ "d1" \notin DOMAIN devices
        /\ "d2" \notin co[p].known
        /\ "d2" \in DOMAIN devices
        /\ \E i \in DOMAIN last.body.devices :
                \/ "_id" \notin DOMAIN last.body.devices[i]
                \/ last.body.devices[i]["_id"] = EmptyTok


\* a step in which coroutine p, in a non-forced update_user_data, reads a
\* 304 response
NotModifiedReply(p) ==
    /\ co[p].pc \in {"fn1", "fn2"}
    /\ co[p].op.name = "update_user_data"
    /\ ~co[p].op.force
    /\ co'[p] # co[p]
    /\ last'.kind = "http"
    /\ last'.status = NotModified

\* C11: a non-forced update_user_data that reads a 304 returns with the
\* registry (ids and every device), the profile, the e-mail and the
\* validator map as they were; the request of a forced call carries no
\* If-None-Match validator.
C11_NotModifiedChangesNothing ==
    /\ [](\A p \in DOMAIN co :
            (/\ co[p].pc \in {"fn1", "fn2"}
             /\ co[p].op.name = "update_user_data"
             /\ co[p].op.force) => co[p].req.inm = NoTag)
    /\ [][\A p \in DOMAIN co :
            NotModifiedReply(p) =>
                /\ co'[p].pc = "done"
                /\ co'[p].exc = "none"
                /\ devices' = devices
                /\ profile' = profile
                /\ user_email' = user_email
                /\ request_history' = request_history]_vars

\* a non-forced call that sent the stored validator and read a 304, with
\* devices in the registry
C11_Witness ==
    \E p \in DOMAIN co :
        /\ co[p].pc = "done"
        /\ co[p].op.name = "update_user_data"
        /\ ~co[p].op.force
        /\ co[p].exc = "none"
        /\ last.kind = "http"
        /\ last.status = NotModified
        /\ request_history[UserDataTag] # NoTag
        /\ devices # << >>


\* the metadata fields of a device and the keys of an entry that set them
MetaFields ==
    [type |-> "deviceType", name |-> "deviceName",
     serial_number |-> "serialNumber", pin |-> "pin",
     firmware_version |-> "firmVer"]

\* a step in which p's update_user_data returns after reading a payload
SyncStep(p) ==
    /\ co[p].pc \in {"fn1", "fn2"}
    /\ co[p].op.name = "update_user_data"
    /\ co'[p].pc = "done"
    /\ co'[p].exc = "none"
    /\ last'.kind = "http"
    /\ co[p].op.force \/ last'.status # NotModified

\* the positions of the list ds whose entry is for id and has key k
EntriesWith(ds, id, k) ==
    {i \in DOMAIN ds : /\ "_id" \in DOMAIN ds[i]
                       /\ ds[i]["_id"] = id
                       /\ k \in DOMAIN ds[i]}

\* the greatest element of a non-empty set of numbers
Greatest(S) == CHOOSE x \in S : \A y \in S : y <= x

\* C12: when update_user_data finds a device the registry already has, a
\* metadata field whose key no entry of the device gives keeps its value, a
\* field an entry gives takes the entry's value, and everything else the
\* device holds (state attributes, image URL, local address) is kept: the
\* device object is updated, not replaced.
C12_AbsentMetadataKept ==
    [][\A p \in DOMAIN co :
        SyncStep(p) =>
            \A id \in DOMAIN devices \cap DOMAIN devices' :
                /\ \A f \in DOMAIN MetaFields :
                    LET at == EntriesWith(last'.body.devices, id, MetaFields[f])
                    IN devices'[id][f] =
                         IF at = {} THEN devices[id][f]
                         ELSE last'.body.devices[Greatest(at)][MetaFields[f]]
                /\ \A g \in DOMAIN NewDevice \ DOMAIN MetaFields :
                    devices'[id][g] = devices[id][g]]_vars

\* d1 was known with its type and its state attributes; the list had an
\* entry for it with a name and no type: the name is the entry's, the type
\* and the state attributes are still there
C12_Witness ==
    \E p \in DOMAIN co :
        /\ Synced(p)
        /\ "d1" \in co[p].known
        /\ "d1" \in DOMAIN devices
        /\ EntriesWith(last.body.devices, "d1", "deviceType") = {}
        /\ EntriesWith(last.body.devices, "d1", "deviceName") # {}
        /\ devices["d1"].type = "Zenit"
        /\ devices["d1"].name = "v2"
        /\ devices["d1"].is_on = PyBool(TRUE)
        /\ devices["d1"].image_url # NoneTok

\* C13: after update_user_data returned, the same call with the same
\* payload, whatever ETag comes with it, leaves the registry as it is: the
\* same ids, each once, with the same metadata and state attributes.
C13_SecondSyncSameRegistry ==
    \A p \in DOMAIN co :
        Synced(p) =>
            \A e \in ETags :
                UpdateUserData(co[p].op.force, [last EXCEPT !.etag = e],
                               SessionState(user_email, profile, devices,
                                            request_history)).s.devices
                    = devices

\* a sync that created d2 beside the known d1, whose state attributes are
\* set, from a list that names d1 once and came with an ETag
C13_Witness ==
    \E p \in DOMAIN co :
        /\ Synced(p)
        /\ DOMAIN devices = {"d1", "d2"}
        /\ "d2" \notin co[p].known
        /\ devices["d1"].is_on = PyBool(TRUE)
        /\ last.etag # NoneTok
        /\ Cardinality(EntriesWith(last.body.devices, "d1", "_id")) = 1


(***************************************************************************)
(* update_state, under SpecDev: a call of update_state on d1 ends in one   *)
(* step, the one in which get_state returns; devices["d1"] is the device   *)
(* before the call and devices'["d1"] the device after it.                 *)
(***************************************************************************)
\* the step in which p's update_state returns its change set
UpdateReturns(p) ==
    /\ co[p].pc # "done"
    /\ co'[p].pc = "done"
    /\ co'[p].dop.name = "update_state"
    /\ co'[p].exc = "none"

\* get_state returned None to update_state: the cloud answered a request
\* that was not forced with 304
FetchedNothing(c, r) ==
    /\ c.log[Len(c.log)].ev = "fn_returned"
    /\ r.kind = "http"
    /\ r.status = NotModified
    /\ ~c.dop.force

\* the step in which p's update_state returns after it applied the payload
\* last'.data
PayloadApplied(p) ==
    UpdateReturns(p) /\ ~FetchedNothing(co'[p], last')

\* the new value of the mapping's entry m, by the rule of the generic pass
NewValue(m, stored, data, mark) ==
    IF m.key \in DOMAIN data THEN Convert(m.conv, data[m.key]).v
    ELSE IF mark THEN PyNone
    ELSE stored

GenericAttributes ==
    {i \in DOMAIN ATTRIBUTE_KEY_MAPPING :
        ATTRIBUTE_KEY_MAPPING[i].conv # "False"}

\* C14: when update_state returns after applying a payload, every attribute
\* of the mapping that is not skipped has a new value: the converted wire
\* value if the payload has the key, None if it has not and
\* mark_as_none_if_not_present is set, the stored value otherwise; the
\* attribute is in the returned change set if and only if the new value
\* differs (Python's !=) from the value stored before the call, and after
\* the call the stored value is the new value (the very value when it was
\* assigned, the untouched one otherwise).
C14_GenericAttributeRule ==
    [][\A p \in DOMAIN co :
        PayloadApplied(p) =>
            \A i \in GenericAttributes :
                LET m == ATTRIBUTE_KEY_MAPPING[i]
                    old == devices["d1"][m.attr]
                    new == NewValue(m, old, last'.data, co'[p].dop.mark)
                    cur == devices'["d1"][m.attr]
                IN /\ m.attr \in co'[p].changed <=> ~PyEq(new, old)
                   /\ PyEq(cur, new)
                   /\ cur = IF m.attr \in co'[p].changed THEN new ELSE old
     ]_vars

\* an update_state with the flag set has returned: the payload lacks
\* temp_sp, so that the stored 21.0 became None and is reported, it has
\* "on": 1 where True was stored, which is not reported, and it has
\* "hum_sp": "45" where 40 was stored, which is converted and reported
C14_Witness ==
    /\ co[1].pc = "done"
    /\ co[1].exc = "none"
    /\ co[1].dop.name = "update_state"
    /\ co[1].dop.mark
    /\ last.kind = "http"
    /\ "temp_sp" \notin DOMAIN last.data
    /\ "target_temperature" \in co[1].changed
    /\ devices["d1"].target_temperature = PyNone
    /\ "on" \in DOMAIN last.data
    /\ last.data["on"] = PyInt(1)
    /\ devices["d1"].is_on = PyBool(TRUE)
    /\ "is_on" \notin co[1].changed
    /\ "hum_sp" \in DOMAIN last.data
    /\ devices["d1"].target_humidity = PyInt(45)
    /\ "target_humidity" \in co[1].changed

\* the image URL a payload resolves to, as the claim describes it: the URL
\* of the custom image, else the default image of the declared type, else
\* none
ResolvedUrl(d, data) ==
    IF "image" \in DOMAIN data /\ data["image"].s # ""
    THEN BASE_URL \o "/upload/d1_" \o data["image"].s \o ".jpg"
    ELSE IF d.type \in DOMAIN IMAGES_BY_DEVICE_TYPE
    THEN BASE_URL \o IMAGES_BY_DEVICE_TYPE[d.type]
    ELSE NoneTok

\* C15: when update_state returns after applying a payload, image_url
\* follows the rule of the generic attributes with either value of
\* mark_as_none_if_not_present: its new value is the resolved URL, or, with
\* nothing resolvable, None if the flag is set and the stored URL if not;
\* image_url is in the change set if and only if the new value differs
\* from the stored one, and the device holds the new value afterwards.
C15_ImageUrlFollowsGenericRule ==
    [][\A p \in DOMAIN co :
        PayloadApplied(p) =>
            LET old == devices["d1"].image_url
                url == ResolvedUrl(devices["d1"], last'.data)
                new == IF url # NoneTok THEN url
                       ELSE IF co'[p].dop.mark THEN NoneTok
                       ELSE old
            IN /\ "image_url" \in co'[p].changed <=> new # old
               /\ devices'["d1"].image_url = new
     ]_vars

\* C16: in every state in which update_state has returned after applying
\* a payload, a second update_state with the same flags that reads the same
\* payload returns an empty change set and leaves every attribute of the
\* device, image_url included, as it is.
C16_SecondUpdateChangesNothing ==
    \A p \in DOMAIN co :
        (/\ co[p].pc = "done"
         /\ co[p].dop.name = "update_state"
         /\ co[p].exc = "none"
         /\ ~FetchedNothing(co[p], last))
        => LET again == UpdateState(devices["d1"], "d1", FALSE, last.data,
                                    co[p].dop.mark)
           IN /\ again.exc = "none"
              /\ again.changed = {}
              /\ again.dev = devices["d1"]

\* a first update_state that changed generic attributes and image_url has
\* returned, with the flag set or not
C16_Witness ==
    /\ co[1].pc = "done"
    /\ co[1].dop.name = "update_state"
    /\ co[1].exc = "none"
    /\ ~FetchedNothing(co[1], last)
    /\ {"image_url", "fan_speed", "target_temperature"} \subseteq co[1].changed
    /\ devices["d1"].image_url # NoneTok

\* C17: the step in which a cloud fetch that was not forced is answered
\* 304 inside update_state ends the call with an empty change set and
\* leaves the device as it was, whatever mark_as_none_if_not_present is.
C17_NotModifiedEmptyChangeSet ==
    [][\A p \in DOMAIN co :
        (/\ co[p].pc \in {"fn1", "fn2"}
         /\ co[p].dop.name = "update_state"
         /\ ~co[p].dop.force
         /\ last'.kind = "http"
         /\ last'.status = NotModified
         /\ co'[p] # co[p])
        => /\ co'[p].pc = "done"
           /\ co'[p].exc = "none"
           /\ co'[p].changed = {}
           /\ devices' = devices
     ]_vars

\* an update_state with the flag set, on a device whose attributes are
\* set, has returned after a 304 to its cloud request, which carried the
\* stored validator
C17_Witness ==
    /\ co[1].pc = "done"
    /\ co[1].exc = "none"
    /\ co[1].dop.name = "update_state"
    /\ co[1].dop.mark
    /\ FetchedNothing(co[1], last)
    /\ co[1].changed = {}
    /\ devices["d1"].is_on # PyNone
    /\ devices["d1"].image_url # NoneTok
    /\ request_history[DeviceTag("d1")] # NoTag


(***************************************************************************)
(* get_state and set_value, under SpecFallback.  The log of a call holds   *)
(* "local" for each request to the device's own endpoint and "cloud" for   *)
(* each call of the session's operation.                                   *)
(***************************************************************************)
\* the device a call is made on; no step of SpecFallback changes its
\* address or its session
Self(c) == TargetDevice(c.dop, devices, standalone)

\* the policy of the fallback, for the call c of the device method
FallbackPolicy(c) ==
    LET L == c.log
        d == Self(c)
        failed == At(L, "local_failed")
    IN /\ Count(L, "local") <= 1
       /\ Count(L, "cloud") <= 1
       \* a local address: the local endpoint first
       /\ ~Falsy(d.host) => /\ L[1] = Ev("local", "sent")
                            /\ c.pc = "local" <=> Len(L) = 1
       \* it succeeded: its result, and no cloud request
       /\ At(L, "local_returned") # {}
            => /\ Count(L, "cloud") = 0
               /\ Count(L, "request") = 0
               /\ c.pc = "done" /\ c.exc = "none" /\ c.ret = "device_data"
       \* it failed: one cloud attempt, right then, with a session and a
       \* transport or decode failure; the same error otherwise
       /\ \A i \in failed :
            IF L[i].info \in LocalCaught /\ d.api
            THEN /\ Count(L, "cloud") = 1
                 /\ L[i + 1] = Ev("cloud", "called")
            ELSE /\ Count(L, "cloud") = 0
                 /\ Count(L, "request") = 0
                 /\ c.pc = "done" /\ c.exc = L[i].info
       \* no local address: straight to the cloud, or nothing to try
       /\ Falsy(d.host) /\ d.api => /\ L[1] = Ev("cloud", "called")
                                    /\ Count(L, "local") = 0
       /\ Falsy(d.host) /\ ~d.api => /\ L = << >>
                                     /\ c.pc = "done"
                                     /\ c.exc = "TurkovAPIError"
       \* the cloud is asked for one of these two reasons only
       /\ Count(L, "cloud") = 1
            => \/ Falsy(d.host) /\ d.api
               \/ \E i \in failed : L[i].info \in LocalCaught /\ d.api

\* C18: get_state on a device with a local address asks the local endpoint
\* first and returns its result without a cloud request if it succeeds; if
\* the local attempt fails with a transport or decode failure, the cloud's
\* get_device_state is called exactly once when the device has a session,
\* and otherwise the local error propagates as it is with no cloud
\* attempt; a device without a local address goes straight to the cloud.
\* No call makes more than one local or more than one cloud attempt.
C18_GetStateFallback ==
    \A p \in DOMAIN co :
        co[p].dop.name = "get_state" /\ co[p].pc # "idle"
        => /\ FallbackPolicy(co[p])
           /\ Count(co[p].log, "cloud") = 1
                => co[p].op.name = "get_device_state"

\* a get_state on d1, which has an address and a session, whose local
\* request timed out and whose single cloud call returned the payload
C18_Witness ==
    /\ co[1].dop.name = "get_state"
    /\ co[1].dop.target = "d1"
    /\ co[1].pc = "done"
    /\ co[1].exc = "none"
    /\ co[1].ret = "device_data"
    /\ \E i \in DOMAIN co[1].log :
            co[1].log[i] = Ev("local_failed", "TimeoutError")
    /\ Count(co[1].log, "cloud") = 1
    /\ Count(co[1].log, "local") = 1

\* C19: set_value follows the same policy: the local command first when
\* the device has a local address; on a local transport or decode failure
\* the cloud's set_device_value is called exactly once if the device has a
\* session, and otherwise the local error propagates; without a local
\* address the command goes straight to the cloud; with neither an address
\* nor a session the call raises TurkovAPIError and sends nothing.
C19_SetValueFallback ==
    \A p \in DOMAIN co :
        co[p].dop.name = "set_value" /\ co[p].pc # "idle"
        => /\ FallbackPolicy(co[p])
           /\ Count(co[p].log, "cloud") = 1
                => co[p].op.name = "set_device_value"

\* a set_value on the standalone device, which has an address and no
\* session, whose local command failed in transport: the error is the
\* call's, and nothing was sent to the cloud
C19_Witness ==
    /\ co[1].dop.name = "set_value"
    /\ co[1].dop.target = Solo
    /\ ~Falsy(standalone.host)
    /\ co[1].pc = "done"
    /\ co[1].exc = "ClientError"
    /\ Count(co[1].log, "local") = 1
    /\ Count(co[1].log, "cloud") = 0

(***************************************************************************)
(* get_device_state: the shape of the answer, under SpecDev.               *)
(***************************************************************************)
\* the deviations from an array whose last element is the text of a JSON
\* object: not an array, an empty array, a last element that does not
\* decode, a decoded value that is not an object
BadShapes == {"notlist", "empty", "badtext", "notdict"}

\* C20: the step in which get_device_state reads a JSON answer of a
\* deviating shape ends the call with TurkovAPIError and without a
\* payload, stores no validator for the device's tag, and leaves every
\* attribute of the device the enclosing update_state was called on
\* unchanged, with an empty change set.
C20_BadShapeIsHardError ==
    [][\A p \in DOMAIN co :
        (/\ co[p].pc \in {"fn1", "fn2"}
         /\ co[p].op.name = "get_device_state"
         /\ co'[p] # co[p]
         /\ last'.kind = "http"
         /\ last'.status = StatusOK
         /\ last'.json
         /\ last'.shape \in BadShapes)
        => /\ co'[p].pc = "done"
           /\ co'[p].exc = "TurkovAPIError"
           /\ co'[p].ret = "None"
           /\ co'[p].changed = {}
           /\ request_history' = request_history
           /\ devices' = devices
     ]_vars

\* an update_state with the flag set, on a device whose attributes are
\* set and whose tag has no validator, has ended with TurkovAPIError on an
\* answer that came with an ETag and whose inner payload is not an object
C20_Witness ==
    /\ co[1].pc = "done"
    /\ co[1].exc = "TurkovAPIError"
    /\ co[1].dop.name = "update_state"
    /\ co[1].dop.mark
    /\ last.kind = "http"
    /\ last.shape = "notdict"
    /\ last.etag = "e1"
    /\ request_history[DeviceTag("d1")] = NoTag
    /\ devices["d1"].is_on # PyNone
    /\ devices["d1"].image_url # NoneTok


(***************************************************************************)
(* The cache validators, under SpecCache.                                  *)
(***************************************************************************)
\* the tag of an operation's requests, forced or not
TagOf(o) ==
    IF o.name = "update_user_data" THEN UserDataTag ELSE DeviceTag(o.dev)

\* the step in which p's request is built and sent
Sends(p) ==
    /\ co'[p] # co[p]
    /\ co'[p].pc \in {"fn1", "fn2"}

\* the step in which p's operation processes the answer last' and returns
Processed(p) ==
    /\ co[p].pc \in {"fn1", "fn2"}
    /\ co'[p].pc = "done"
    /\ co'[p].exc = "none"
    /\ last'.kind = "http"
    /\ ~(last'.status = NotModified /\ ~co[p].op.force)

\* C21: a request that is not forced carries the validator stored for its
\* tag and none if nothing is stored, a forced request carries none; the
\* validator stored for a tag changes only when an operation of that tag
\* processes an answer that carries a validator and returns, and is that
\* validator from then on: an answer without a validator, a 304, an
\* undecodable or malformed answer and a failed request leave it as it is.
\* So the validator a request carries is that of the most recent answer
\* for its tag that was processed and carried one.
C21_ValidatorPerTag ==
    [][/\ \A p \in DOMAIN co :
            Sends(p) =>
                co'[p].req.inm = IF co'[p].op.force THEN NoTag
                                 ELSE request_history[TagOf(co'[p].op)]
       /\ \A t \in Tags :
            request_history'[t] # request_history[t] =>
                \E p \in DOMAIN co :
                    /\ Processed(p)
                    /\ TagOf(co[p].op) = t
                    /\ last'.etag # NoneTok
                    /\ request_history'[t] = last'.etag
       /\ \A p \in DOMAIN co :
            Processed(p) /\ last'.etag # NoneTok =>
                request_history'[TagOf(co[p].op)] = last'.etag
     ]_vars

\* a request for the account that is not forced carries the validator e1
\* of an earlier answer, while the tag of d1 holds e2 and that of d2 none
C21_Witness ==
    /\ co[1].pc = "fn1"
    /\ co[1].op.name = "update_user_data"
    /\ ~co[1].op.force
    /\ co[1].req.inm = "e1"
    /\ request_history[UserDataTag] = "e1"
    /\ request_history[DeviceTag("d1")] = "e2"
    /\ request_history[DeviceTag("d2")] = NoTag


\* C23: every request of a wrapped operation carries in x-access-token the
\* access token the session holds when the request is built; the request
\* sent again after a re-authentication carries the access token of the
\* answer that authentication just stored.
C23_RequestCarriesCurrentToken ==
    [][\A p \in DOMAIN co :
        Sends(p) =>
            /\ co'[p].req.token = tok'.access_token
            /\ co[p].pc = "reauth" =>
                    /\ accepted'.kind = "data"
                    /\ co'[p].req.token = accepted'.accessToken
     ]_vars

\* the request sent again after the first was refused and the session
\* authenticated anew: it carries the new token a1, not the seed's
C23_Witness ==
    /\ co[1].pc = "fn2"
    /\ \E i \in At(co[1].log, "fn_raised") : co[1].log[i].info \in AuthClass
    /\ tok.access_token = "a1"
    /\ co[1].req.token = "a1"
    /\ accepted.kind = "data"
    /\ accepted.accessToken = "a1"


(***************************************************************************)
(* The commands, under SpecCmd.  The log of a command's call holds         *)
(* "set_value" for each set_value it calls, before the requests of that    *)
(* set_value.                                                              *)
(***************************************************************************)
\* the step in which p calls a command
CallsCommand(p) ==
    /\ co[p].pc = "idle"
    /\ co'[p].cmd.name # "none"

\* the device p's call is made on, when the call begins
CalledOn(p) ==
    IF co'[p].dop.target = Solo THEN standalone
    ELSE devices[co'[p].dop.target]

\* the argument is in the domain of the command
InDomain(cm) ==
    CASE cm.name = "set_fan_speed" ->
            cm.arg \in {PyStr(x) : x \in {"auto", "0", "1", "2", "3"}}
      [] cm.name = "set_target_temperature" -> cm.arg.n \in 15..50
      [] cm.name = "set_target_humidity" -> cm.arg.n \in 40..100

WireKeyOf(name) ==
    CASE name = "set_fan_speed" -> "fan_speed"
      [] name = "set_target_temperature" -> "temp_sp"
      [] name = "set_target_humidity" -> "hum_sp"

\* C22: set_fan_speed with any argument, and set_target_temperature and
\* set_target_humidity with an integer, raise TurkovAPIValueError before
\* anything is sent exactly when the argument is outside the domain
\* (auto, 0, 1, 2, 3 as text; 15 to 50; 40 to 100); inside the domain, the
\* bounds included, they call set_value once, first of all, with the wire
\* key of the command and the argument as the value; and no call of a
\* command calls set_value twice.
C22_ValidatedDispatch ==
    [][\A p \in DOMAIN co :
        /\ co'[p].cmd.name # "none"
                => Count(co'[p].log, "set_value") <= 1
        /\ (/\ CallsCommand(p)
            /\ co'[p].cmd.name \in {"set_fan_speed", "set_target_temperature",
                                    "set_target_humidity"}
            /\ co'[p].cmd.name = "set_fan_speed" \/ co'[p].cmd.arg.t = "int")
           => LET c == co'[p] IN
              IF InDomain(c.cmd)
              THEN /\ c.log # << >>
                   /\ c.log[1] = Ev("set_value", WireKeyOf(c.cmd.name))
                   /\ c.cmd.key = WireKeyOf(c.cmd.name)
                   /\ c.cmd.value = c.cmd.arg
                   /\ c.dop.name = "set_value"
                   /\ c.exc # "TurkovAPIValueError"
              ELSE /\ c.pc = "done"
                   /\ c.exc = "TurkovAPIValueError"
                   /\ c.log = << >>
                   /\ c.cmd.key = ""
     ]_vars

\* set_target_temperature(15) has called set_value("temp_sp", 15) once and
\* returned after the cloud accepted the command
C22_Witness ==
    /\ co[1].cmd.name = "set_target_temperature"
    /\ co[1].cmd.arg = PyInt(15)
    /\ co[1].cmd.key = "temp_sp"
    /\ co[1].cmd.value = PyInt(15)
    /\ Count(co[1].log, "set_value") = 1
    /\ Count(co[1].log, "cloud") = 1
    /\ co[1].pc = "done"
    /\ co[1].exc = "none"

\* C24: toggle() without an argument sends the command opposite to the
\* stored state: "on" = "false" when is_on is true and "on" = "true" when
\* is_on is false; with an argument it sends the command for the argument.
C24_ToggleFlips ==
    [][\A p \in DOMAIN co :
        CallsCommand(p) /\ co'[p].cmd.name = "toggle"
        => LET cm == co'[p].cmd
               is_on == CalledOn(p).is_on
           IN /\ cm.key = "on"
              /\ cm.arg = PyNone /\ is_on = PyBool(TRUE)
                    => cm.value = PyStr("false")
              /\ cm.arg = PyNone /\ is_on = PyBool(FALSE)
                    => cm.value = PyStr("true")
              /\ cm.arg = PyBool(TRUE) => cm.value = PyStr("true")
              /\ cm.arg = PyBool(FALSE) => cm.value = PyStr("false")
     ]_vars

\* C29: no step of a command changes an attribute of a device, whether the
\* command is refused, fails or succeeds, locally or through the cloud:
\* the devices change only in the step in which an update_state ends.
C29_CommandsLeaveAttributes ==
    [][devices' # devices \/ standalone' # standalone
        => \E p \in DOMAIN co :
                /\ co[p].dop.name = "update_state"
                /\ co[p].cmd.name = "none"
                /\ co[p].pc # "done"
                /\ co'[p].pc = "done"
     ]_vars

\* toggle_fireplace(True) on d1 has returned, the cloud having accepted
\* it, and d1's fireplace attribute is not True
C29_Witness ==
    /\ co[1].cmd.name = "toggle_fireplace"
    /\ co[1].cmd.arg = PyBool(TRUE)
    /\ co[1].cmd.value = PyBool(TRUE)
    /\ co[1].dop.target = "d1"
    /\ co[1].pc = "done"
    /\ co[1].exc = "none"
    /\ Count(co[1].log, "cloud") = 1
    /\ devices["d1"].fireplace # PyBool(TRUE)


(***************************************************************************)
(* How often set_value sends its command, under SpecFallback.              *)
(***************************************************************************)
\* the device answered the local command and response.json() could not
\* decode the answer: the command was delivered
LocalDecodeFailed(L) ==
    \E i \in DOMAIN L : L[i] = Ev("local_failed", "JSONDecodeError")

\* C30 as stated: a set_value whose local command was delivered, and whose
\* answer could not be decoded, does not send the command again through
\* the cloud.
C30_CommandSentOnce ==
    \A p \in DOMAIN co :
        co[p].dop.name = "set_value" /\ LocalDecodeFailed(co[p].log)
        => Count(co[p].log, "cloud") = 0

\* C30 amended: a set_value sends its command at most once by each path,
\* one local request at most and one call of the cloud's set_device_value
\* at most; after a local command whose answer could not be decoded the
\* cloud is called, once, if and only if the device has a session, and
\* without one the decode error is the call's.
C30_CommandSentOncePerPath ==
    \A p \in DOMAIN co :
        co[p].dop.name = "set_value"
        => LET L == co[p].log IN
           /\ Count(L, "local") <= 1
           /\ Count(L, "cloud") <= 1
           /\ LocalDecodeFailed(L) =>
                /\ Count(L, "local") = 1
                /\ Count(L, "cloud") = IF Self(co[p]).api THEN 1 ELSE 0
                /\ ~Self(co[p]).api =>
                        co[p].pc = "done" /\ co[p].exc = "JSONDecodeError"

\* a set_value on d1 whose local command was answered with text that is
\* not JSON, and that the cloud then accepted: the command went out twice
C30_Witness ==
    /\ co[1].dop.name = "set_value"
    /\ co[1].dop.target = "d1"
    /\ LocalDecodeFailed(co[1].log)
    /\ Count(co[1].log, "local") = 1
    /\ Count(co[1].log, "cloud") = 1
    /\ co[1].pc = "done"
    /\ co[1].exc = "none"


\* C25: the step in which update_user_data reads an answer that is JSON
\* and lacks one of devices, userEmail, firstName, lastName, fathersName
\* ends the call with TurkovAPIError and leaves the profile, the e-mail,
\* the registry and the validators as they are.
C25_MissingFieldIsAPIError ==
    [][\A p \in DOMAIN co :
        (/\ co[p].pc \in {"fn1", "fn2"}
         /\ co[p].op.name = "update_user_data"
         /\ co'[p] # co[p]
         /\ last'.kind = "http"
         /\ last'.status = StatusOK
         /\ last'.json
         /\ ~(RequiredKeys \subseteq last'.body.keys))
        => /\ co'[p].pc = "done"
           /\ co'[p].exc = "TurkovAPIError"
           /\ profile' = profile
           /\ user_email' = user_email
           /\ devices' = devices
           /\ request_history' = request_history
     ]_vars


\* C27: the step in which an update_state ends with an exception, raised
\* by the fetch or by a converter, leaves every attribute of the device as
\* it was before the call.
C27_UpdateStateAllOrNothing ==
    [][\A p \in DOMAIN co :
        (/\ co[p].pc # "done"
         /\ co'[p].pc = "done"
         /\ co'[p].dop.name = "update_state"
         /\ co'[p].exc # "none")
        => devices' = devices
     ]_vars


(***************************************************************************)
(* The session right after an exchange, under Spec.                        *)
(***************************************************************************)
\* the step in which an exchange succeeds: its answer is stored
ExchangeSucceeds == accepted' # accepted \/ tok' # tok

\* C28 as stated: right after a successful exchange the access token does
\* not need an update, and a call that has just pre-authenticated does not
\* send its request with a token that does.
C28_FreshAfterExchange ==
    [][ExchangeSucceeds => ~access_token_needs_update(tok', now)]_vars

\* C28 amended: right after a successful exchange the session holds the
\* four values of the answer, and the access token needs no update at that
\* instant exactly when the answer's access token is not empty and its
\* expiry is 60 seconds ahead or more; a call that has just
\* pre-authenticated sends its request in the same step with the answer's
\* access token, whether that token needs an update or not.
C28_FreshIffAnswerIs ==
    [][/\ ExchangeSucceeds =>
            /\ tok' = WholeOf(accepted')
            /\ ~access_token_needs_update(tok', now)
                <=> /\ ~Falsy(accepted'.accessToken)
                    /\ accepted'.accessTokenExpiresAt - Margin >= now
       /\ \A p \in DOMAIN co :
            co[p].pc = "preauth" /\ ExchangeSucceeds /\ co'[p] # co[p]
            /\ co'[p].exc # "CancelledError"
            => /\ co'[p].pc = "fn1"
               /\ co'[p].req.token = accepted'.accessToken
     ]_vars

\* a call that pre-authenticated has sent its request with the token a1 it
\* was just given, which expires within the margin and needs an update
C28_Witness ==
    /\ co[1].pc = "fn1"
    /\ PreAuthed(co[1].log)
    /\ co[1].req.token = "a1"
    /\ tok.access_token = "a1"
    /\ access_token_needs_update(tok, now)


(***************************************************************************)
(* Eviction and the validators, under SpecEvict.                           *)
(***************************************************************************)
\* no state attribute of d is known: d is as the sync created it
StateUnknown(d) ==
    \A i \in DOMAIN ATTRIBUTE_KEY_MAPPING :
        LET m == ATTRIBUTE_KEY_MAPPING[i]
        IN IF m.conv = "False" THEN d.image_url = NoneTok
           ELSE d[m.attr] = PyNone

\* C26: an update_state that is not forced, on a device whose state
\* attributes are all unknown, sends no validator, and so never returns an
\* empty change set on a 304 while the attributes are unknown: a device
\* evicted by a sync and discovered again by a later one starts without
\* the validator of the device that had its id.
C26_EvictionDiscardsValidator ==
    \A p \in DOMAIN co :
        (/\ co[p].dop.name = "update_state"
         /\ ~co[p].dop.force
         /\ co[p].dop.target \in DOMAIN devices
         /\ StateUnknown(devices[co[p].dop.target]))
        => /\ co[p].pc \in {"fn1", "fn2"} => co[p].req.inm = NoTag
           /\ co[p].pc = "done" => ~FetchedNothing(co[p], last)


(***************************************************************************)
(* What makes the wrapper authenticate again, under SpecSync.              *)
(***************************************************************************)
\* C31: the step that ends the first request of update_user_data starts
\* authenticate() only when the request was refused (401 or 403), and an
\* answer whose body is not JSON ends the call there: no authenticate(),
\* no second request.
C31_BadJsonIsNoAuthorizationError ==
    [][\A p \in DOMAIN co :
        (/\ co[p].pc = "fn1"
         /\ co[p].op.name = "update_user_data"
         /\ co'[p] # co[p])
        => /\ co'[p].pc = "reauth"
                => last'.kind \in {"HTTPForbidden", "HTTPUnauthorized"}
           /\ (last'.kind = "http" /\ last'.status = StatusOK /\ ~last'.json)
                => co'[p].pc = "done"
      ]_vars

=============================================================================
